---- MODULE Spec2Model ----
(***************************************************************************)
(* A model of deno_cache_dir: the FileFetcher (src/file_fetcher.ts, the    *)
(* version with fetchOnce and the lazily created HttpCache), the HttpCache *)
(* wrapper (src/http_cache.ts) over the global and the vendor store, and   *)
(* the file-level write protocol of the global store (src/rs_lib/fs.js).   *)
(*                                                                         *)
(* Spec        the Fetcher: concurrent fetch / fetchOnce calls over one    *)
(*             HttpCache whose factory fulfils its promise, stores at the  *)
(*             granularity of cache entries.                               *)
(* SpecFactory Spec, with a factory whose promise can be rejected.         *)
(* SpecStore   the global store at the granularity of files: set as two    *)
(*             atomic_write_file calls, with process crashes.              *)
(* SpecDisk    the DiskCache of the gen directory: set and get of files.   *)
(*                                                                         *)
(* JavaScript runs one job at a time.  An action of the Fetcher is one     *)
(* synchronous stretch of a call: from the call, or from the continuation  *)
(* of an await, up to the next await.  The continuation of an await on I/O *)
(* (the HttpCache factory, an HTTP attempt, the body, the digest, a file   *)
(* read) runs when the I/O completes; the continuation of an await on a    *)
(* settled value is a microtask, and every microtask runs before the next  *)
(* I/O completes.  The calls that await the HttpCache continue in the      *)
(* order of their awaits (waiters).                                        *)
(***************************************************************************)
EXTENDS Integers, Sequences, FiniteSets, TLC

\* undefined: a record, as every optional value of the model is a record
None == [kind |-> "none"]

(***************************************************************************)
(* URLs, bodies, digests                                                   *)
(***************************************************************************)
UrlA == "https://a/"
UrlB == "https://b/"
UrlD == "data:,d"
\* a data: URL without the comma: it parses as a URL, and fetch rejects it
UrlDBad == "data:d"
UrlF == "file:///f"
UrlW == "wasm://w/"

RemoteUrls == {UrlA, UrlB}
DataUrls   == {UrlD, UrlDBad}
CacheUrls  == RemoteUrls \cup DataUrls
Specifiers == CacheUrls \cup {UrlF, UrlW}

SUPPORTED_SCHEMES == {"data:", "blob:", "file:", "http:", "https:"}

\* URL.protocol of the specifiers of the model
Protocol(u) ==
  CASE u \in RemoteUrls -> "https:"
    [] u \in DataUrls   -> "data:"
    [] u = UrlF         -> "file:"
    [] OTHER            -> "wasm:"

\* the body the origin serves now, and the body of an entry written by an
\* earlier run of the program against an earlier state of the origin
BodyNew   == "N"
BodyStale == "S"
Bodies    == {BodyNew, BodyStale}

\* hex(SHA-256(bytes)): injective on the bodies of the model
Sha256(b) == [kind |-> "sha256", of |-> b]
Etag(b)   == "etag-" \o b

Checksums == {None} \cup {Sha256(b) : b \in Bodies}

\* the same hex digits written in upper case, and a string that is the
\* digest of nothing ("invalid")
Sha256Upper(b)  == [kind |-> "SHA256", of |-> b]
InvalidChecksum == [kind |-> "invalid"]

\* a checksum string with its hex digits in lower case
ToLowerCase(c) == IF c.kind = "SHA256" THEN Sha256(c.of) ELSE c
EqIgnoreAsciiCase(a, b) == ToLowerCase(a) = ToLowerCase(b)

Headers(loc, etag) == [location |-> loc, etag |-> etag]
Entry(h, c)        == [kind |-> "entry", headers |-> h, content |-> c]

\* the entry of a redirect record: only a location header, empty body
RedirectEntry(v) == Entry(Headers(v, ""), "")
ModuleEntry(b)   == Entry(Headers("", Etag(b)), b)

Other(u) == IF u = UrlA THEN UrlB ELSE UrlA

(***************************************************************************)
(* LoadResponse, and the outcome of a call                                 *)
(***************************************************************************)
Module(u, h, c) == [kind |-> "module", specifier |-> u, headers |-> h, content |-> c]
Redirect(u)     == [kind |-> "redirect", specifier |-> u]
Absent          == [kind |-> "absent"]
Err(e)          == [kind |-> "error", error |-> e]

IsResponse(r) == r # None /\ r.kind \in {"module", "redirect"}

(***************************************************************************)
(* State                                                                   *)
(***************************************************************************)
VARIABLES
  \* the environment
  origin,            \* what the origin serves at each remote URL
  writePerm,         \* Deno's write permission is granted
  global,            \* the global store: URL -> entry
  vendor,            \* the vendor store: URL -> entry
  \* the Fetcher and its HttpCache
  allowRemote,       \* FileFetcher.#allowRemote
  cacheSetting,      \* FileFetcher.#cacheSetting
  createOpts,        \* the options the factory passes to HttpCache.create
  httpCache,         \* FileFetcher.#httpCache (with HttpCache.#readOnly)
  httpCachePromise,  \* FileFetcher.#httpCachePromise
  factoryCalls,      \* invocations of FileFetcher.#httpCacheFactory
  memo,              \* FileFetcher.#cache
  \* the calls
  task,              \* one record per fetch / fetchOnce call
  waiters,           \* the calls that await the HttpCache, in order
  started,           \* calls started so far
  workload,          \* the calls user code makes in this run
  faults,            \* transient failures the network has produced so far
  \* history
  first,             \* per specifier: the first response a fetchOnce returned
  settled,           \* per specifier: the first response a fetchOnce returned
                     \* while no other fetchOnce of the specifier was in flight
  populated,         \* per specifier: the Module of the first fetch that went
                     \* to the network and wrote to the cache
  \* the global store at the granularity of files (SpecStore)
  files,             \* path -> inode (0: no such file)
  inodes,            \* inode -> bytes
  dirExists,         \* the parent directory of the entry exists
  writer,            \* one record per process running GlobalHttpCache.set
  old,               \* the entry of the store before any set of the run
  crashes,           \* processes killed so far
  \* the HttpCache used directly (SpecCache)
  seed,              \* the global store before the first call of the run
  creates,           \* HttpCache.create calls so far
  ops,               \* get, getHeaders and set calls so far
  lastSet,           \* per (URL, destination): the entry of the latest set
  ret,               \* the latest call, the stores before it and its result
  \* AuthTokens (SpecAuth)
  authStr,           \* the string the AuthTokens were constructed from
  authTokens,        \* AuthTokens.#tokens
  authRet,           \* the latest AuthTokens.get: its URL and what it returned
  \* the functions of the library called on their own (SpecPure)
  arg,               \* the latest call: the function and its arguments
  result             \* what that call returned or threw

fetcherVars == <<allowRemote, cacheSetting, createOpts, httpCache,
                 httpCachePromise, factoryCalls, memo>>
envVars     == <<origin, writePerm, global, vendor>>
callVars    == <<task, waiters, started, faults>>
confVars    == <<origin, writePerm, allowRemote, cacheSetting, createOpts, workload>>
histVars    == <<first, settled, populated>>
authVars    == <<authStr, authTokens, authRet>>
pureVars    == <<arg, result>>
apiVars     == <<seed, creates, ops, lastSet, ret, authVars, pureVars>>
storeVars   == <<files, inodes, dirExists, writer, old, crashes, apiVars>>
vars == <<envVars, fetcherVars, callVars, workload, histVars, storeVars>>

(***************************************************************************)
(* Bounds                                                                  *)
(***************************************************************************)
Tasks      == {1, 2}
MaxFetches == 3
MaxFaults  == 1

(***************************************************************************)
(* HttpCache (src/http_cache.ts) over GlobalHttpCache and LocalHttpCache   *)
(***************************************************************************)
\* HttpCache.create that allows the copy from the global store always
HttpCacheCreateAllowCopy(opts, id) ==
  [id        |-> id,
   local     |-> opts.vendorRoot,
   allowCopy |-> TRUE,
   readOnly  |-> opts.readOnly]

\* HttpCache.create: a LocalHttpCache when a vendor root is given, created
\* with allow_global_to_local_copy = !options.readOnly
HttpCacheCreate(opts, id) ==
  [id        |-> id,
   local     |-> opts.vendorRoot,
   allowCopy |-> opts.readOnly # "true",
   readOnly  |-> opts.readOnly]

\* GlobalHttpCache.get that compares the hex digits exactly
GlobalGetCaseSensitive(g, url, checksum) ==
  IF g[url] = None THEN None
  ELSE IF checksum # None /\ Sha256(g[url].content) # checksum
         THEN Err("ChecksumMismatch")
  ELSE g[url]

\* GlobalHttpCache.get: absent without an entry; with a checksum, the SHA-256
\* of the content must equal it, whatever the case of the hex digits
GlobalGet(g, url, checksum) ==
  IF g[url] = None THEN None
  ELSE IF checksum # None /\ ~EqIgnoreAsciiCase(checksum, Sha256(g[url].content))
         THEN Err("ChecksumMismatch")
  ELSE g[url]

\* LocalHttpCache.get: the vendor entry if there is one (no checksum); else,
\* when copying is allowed, the global entry, copied into the vendor store
LocalGet(hc, g, v, perm, url, checksum) ==
  IF v[url] # None THEN [res |-> v[url], vendor |-> v]
  ELSE IF ~hc.allowCopy THEN [res |-> None, vendor |-> v]
  ELSE LET r == GlobalGet(g, url, checksum) IN
       IF r = None \/ r = Err("ChecksumMismatch") THEN [res |-> r, vendor |-> v]
       ELSE IF ~perm THEN [res |-> Err("IoError"), vendor |-> v]
       ELSE [res |-> r, vendor |-> [v EXCEPT ![url] = r]]

\* HttpCache.get
HttpCacheGet(hc, g, v, perm, url, checksum) ==
  IF hc.local THEN LocalGet(hc, g, v, perm, url, checksum)
  ELSE [res |-> GlobalGet(g, url, checksum), vendor |-> v]

\* HttpCache.getHeaders: the headers of the sidecar / manifest, nothing copied
HttpCacheGetHeaders(hc, g, v, url) ==
  LET e == IF ~hc.local THEN g[url]
           ELSE IF v[url] # None THEN v[url]
           ELSE IF hc.allowCopy THEN g[url]
           ELSE None
  IN IF e = None THEN None ELSE e.headers

\* HttpCache.set, the first statement: #readOnly is decided once, from the
\* write permission, when it was not given
ResolveReadOnly(ro, perm) ==
  IF ro = "undefined" THEN (IF perm THEN "false" ELSE "true") ELSE ro

\* GlobalHttpCache.set and LocalHttpCache.set: the entry of the URL is
\* replaced; a write without the permission throws
StoreSet(store, perm, url, headers, content) ==
  IF ~perm THEN [store |-> store, err |-> Err("IoError")]
  ELSE [store |-> [store EXCEPT ![url] = Entry(headers, content)], err |-> None]

\* HttpCache.set without the return in read-only mode
HttpCacheSetUnguarded(hc, g, v, perm, url, headers, content) ==
  LET ro  == ResolveReadOnly(hc.readOnly, perm)
      hc2 == [hc EXCEPT !.readOnly = ro]
      w   == StoreSet(IF hc.local THEN v ELSE g, perm, url, headers, content)
  IN [hc |-> hc2,
      global |-> IF hc.local THEN g ELSE w.store,
      vendor |-> IF hc.local THEN w.store ELSE v,
      err |-> w.err, skipped |-> ro = "true"]

\* HttpCache.set: nothing in read-only mode; else the entry is written to the
\* store of the cache
HttpCacheSet(hc, g, v, perm, url, headers, content) ==
  LET ro  == ResolveReadOnly(hc.readOnly, perm)
      hc2 == [hc EXCEPT !.readOnly = ro]
      w   == StoreSet(IF hc.local THEN v ELSE g, perm, url, headers, content)
  IN IF ro = "true"
       THEN [hc |-> hc2, global |-> g, vendor |-> v, err |-> None, skipped |-> TRUE]
     ELSE [hc |-> hc2,
           global |-> IF hc.local THEN g ELSE w.store,
           vendor |-> IF hc.local THEN w.store ELSE v,
           err |-> w.err, skipped |-> FALSE]

(***************************************************************************)
(* The origin and the HTTP client                                          *)
(***************************************************************************)
OriginKinds == {"ok", "redirect", "404"}

\* the URL the client ends at: it follows the redirects of the origin itself
\* ("": the redirects never end, the client gives up with a network error)
FinalUrl(o, u) ==
  IF u \notin RemoteUrls \/ o[u] # "redirect" THEN u
  ELSE IF o[Other(u)] = "redirect" THEN ""
  ELSE Other(u)

Response(status, url, etag, body) ==
  [kind |-> "response", status |-> status, url |-> url, etag |-> etag, body |-> body]
NetworkError == [kind |-> "neterr"]

\* Response.ok
Ok(res) == res.status >= 200 /\ res.status <= 299

\* the answer of the origin to a GET of u carrying If-None-Match: inm
OriginAnswer(o, u, inm) ==
  LET f == FinalUrl(o, u) IN
  IF f = "" \/ f = UrlDBad THEN NetworkError
  ELSE IF f \in DataUrls THEN Response(200, f, "", BodyNew)
  ELSE IF o[f] = "404" THEN Response(404, f, "", "")
  ELSE IF inm = Etag(BodyNew) THEN Response(304, f, Etag(BodyNew), "")
  ELSE Response(200, f, Etag(BodyNew), BodyNew)

\* a failure that passes: the connection drops, or the server answers 500
TransientAnswers(u) == {NetworkError, Response(500, u, "", "")}

(***************************************************************************)
(* FileFetcher (src/file_fetcher.ts)                                       *)
(***************************************************************************)
MaxRedirects == 10
MaxRetries   == 3

\* a cache setting that is a list of prefixes to reload, and its elements
ReloadA      == "[https://a/]"
ReloadNone   == "[]"
ReloadScheme == "[https://]"
ReloadTwo    == "[https://b/, https://a/x.ts]"
UrlAx        == "https://a/x.ts"
PrefixesOf(setting) ==
  CASE setting = ReloadA      -> <<UrlA>>
    [] setting = ReloadScheme -> <<"https://">>
    [] setting = ReloadTwo    -> <<UrlB, UrlAx>>
    [] OTHER                  -> <<>>

\* the pieces a URL string or a prefix of the model is written with
PiecesOf(str) ==
  CASE str = ""         -> <<>>
    [] str = "https://" -> <<"https://">>
    [] str = UrlA       -> <<"https://", "a/">>
    [] str = UrlAx      -> <<"https://", "a/", "x.ts">>
    [] str = UrlB       -> <<"https://", "b/">>
    [] OTHER            -> <<str>>

\* startsWith that holds for the whole string only
StartsWithWhole(str, prefix) == str = prefix

\* String.prototype.startsWith
StartsWith(str, prefix) ==
  LET s == PiecesOf(str)
      q == PiecesOf(prefix)
  IN Len(q) <= Len(s) /\ SubSeq(s, 1, Len(q)) = q

\* shouldUseCache that reloads nothing
ShouldUseCacheAlways(setting, specifier) == TRUE

ShouldUseCache(setting, specifier) ==
  CASE setting \in {"only", "use"}         -> TRUE
    [] setting \in {"reloadAll", "reload"} -> FALSE
    [] OTHER -> \A i \in 1..Len(PrefixesOf(setting)) :
                  ~StartsWith(specifier, PrefixesOf(setting)[i])

SuspendedPcs == {"awaitCache", "awaitHttp", "awaitBody", "awaitDigest", "awaitFile"}

IdleTask ==
  [pc |-> "idle", kind |-> "once", orig |-> UrlA, url |-> UrlA,
   setting |-> "default", checksum |-> None,
   i |-> 0, calls |-> 0, reqs |-> 0, iter |-> 0, inm |-> "", res |-> None,
   inst |-> 0, out |-> None, onceOut |-> None,
   seenFirst |-> None, seenSettled |-> None, seenPopulated |-> None,
   memoHit |-> FALSE, skipped |-> FALSE]

\* the part of the state one step of a task reads and writes
St(p) ==
  [t |-> task[p], waiters |-> waiters,
   memo |-> memo, hc |-> httpCache, promise |-> httpCachePromise,
   factoryCalls |-> factoryCalls, global |-> global, vendor |-> vendor,
   first |-> first, settled |-> settled, populated |-> populated]

Commit(p, s) ==
  \E x \in {s} :
    /\ task' = [task EXCEPT ![p] = x.t]
    /\ waiters' = x.waiters
    /\ memo' = x.memo
    /\ httpCache' = x.hc
    /\ httpCachePromise' = x.promise
    /\ factoryCalls' = x.factoryCalls
    /\ global' = x.global
    /\ vendor' = x.vendor
    /\ first' = x.first
    /\ settled' = x.settled
    /\ populated' = x.populated

\* another fetchOnce of u is past its memo lookup and has not returned
InFlightOther(p, u) ==
  \E q \in Tasks \ {p} : task[q].pc \in SuspendedPcs /\ task[q].url = u

\* #resolveOptions: options.cacheSetting ?? this.#cacheSetting
ResolveOptions(setting, default) ==
  IF setting = "default" THEN default ELSE setting

\* the history of the fetches that filled the cache from the network
Populate(s, resp) ==
  IF /\ s.t.kind = "fetch" /\ resp.kind = "module" /\ s.t.reqs > 0
     /\ s.hc # None /\ s.hc.readOnly = "false"
     /\ s.populated[s.t.orig] = None
    THEN [s.populated EXCEPT ![s.t.orig] =
            [kind |-> "populated", resp |-> resp, here |-> TRUE,
             setting |-> ResolveOptions(s.t.setting, cacheSetting)]]
    ELSE s.populated

\* FetchCacher.load that wraps every error of fetchOnce
LoadCatchWrapAll(kind, resp) ==
  IF kind # "load" \/ resp.kind # "error" THEN resp
  ELSE [kind |-> "error", error |-> "FetchCacher#load failed", cause |-> resp]

\* FetchCacher.load, the catch around fetchOnce: NotFound becomes undefined,
\* any other error the cause of a new one; the other calls return as they are
LoadCatch(kind, resp) ==
  IF kind # "load" \/ resp.kind # "error" THEN resp
  ELSE IF resp.error = "NotFound" THEN Absent
  ELSE [kind |-> "error", error |-> "FetchCacher#load failed", cause |-> resp]

\* fetch with a loop that runs once more
FetchLoopOneMore(s, resp) ==
  IF s.t.kind \in {"once", "load"} \/ resp.kind # "redirect"
    THEN [s EXCEPT !.t.pc = "done", !.t.out = LoadCatch(s.t.kind, resp),
                   !.t.res = None, !.populated = Populate(s, resp)]
  ELSE IF s.t.i <= MaxRedirects
    THEN [s EXCEPT !.t.pc = "call", !.t.i = @ + 1, !.t.url = resp.specifier]
  ELSE [s EXCEPT !.t.pc = "done", !.t.out = Err("TooManyRedirects"), !.t.res = None]

\* fetch: the loop around fetchOnce (fetchOnce and load have no loop)
FetchLoop(s, resp) ==
  IF s.t.kind \in {"once", "load"} \/ resp.kind # "redirect"
    THEN [s EXCEPT !.t.pc = "done", !.t.out = LoadCatch(s.t.kind, resp),
                   !.t.res = None, !.populated = Populate(s, resp)]
  ELSE IF s.t.i < MaxRedirects
    THEN [s EXCEPT !.t.pc = "call", !.t.i = @ + 1, !.t.url = resp.specifier]
  ELSE [s EXCEPT !.t.pc = "done", !.t.out = Err("TooManyRedirects"), !.t.res = None]

\* the history of the responses of fetchOnce
Record(s, p, resp) ==
  LET u == s.t.url IN
  [s EXCEPT !.t.onceOut = resp,
            !.first = IF IsResponse(resp) /\ @[u] = None
                        THEN [@ EXCEPT ![u] = resp] ELSE @,
            !.settled = IF IsResponse(resp) /\ @[u] = None /\ ~InFlightOther(p, u)
                          THEN [@ EXCEPT ![u] = resp] ELSE @]

\* fetchOnce, the memo hit and the file read: returned as they are
OnceReturn(s, p, resp) == FetchLoop(Record(s, p, resp), resp)

\* fetchOnce that memoizes whatever the pipeline ended with
MemoizeAll(m, u, resp) == [m EXCEPT ![u] = resp]

\* fetchOnce that memoizes undefined as well
MemoizeAbsent(m, u, resp) == IF resp.kind # "error" THEN [m EXCEPT ![u] = resp] ELSE m

\* fetchOnce, after the pipeline: its response is memoized under the specifier
\* (absent is not, and an error is thrown past the memo)
Memoize(m, u, resp) == IF IsResponse(resp) THEN [m EXCEPT ![u] = resp] ELSE m

\* fetchOnce that memoizes a Module under the URL of its response
OncePipelineReturnFinalKey(s, p, resp) ==
  OnceReturn([s EXCEPT !.memo = Memoize(s.memo,
                                        IF resp.kind = "module" THEN resp.specifier
                                        ELSE s.t.url, resp)], p, resp)

OncePipelineReturn(s, p, resp) ==
  OnceReturn([s EXCEPT !.memo = Memoize(s.memo, s.t.url, resp)], p, resp)

HttpError(status) == [kind |-> "error", error |-> "Http", status |-> status]

\* #resolveHttpCache that does not keep the promise of the factory
ResolveHttpCacheUnshared(s, p) ==
  LET s1 == [s EXCEPT !.t.pc = "awaitCache", !.waiters = Append(@, p)] IN
  IF s.hc # None THEN s1
  ELSE [s1 EXCEPT !.promise = "pending", !.factoryCalls = @ + 1]

\* #resolveHttpCache and the await of its promise: the factory is invoked when
\* there is neither a cache nor a promise of one
ResolveHttpCache(s, p) ==
  LET s1 == [s EXCEPT !.t.pc = "awaitCache", !.waiters = Append(@, p)] IN
  IF s.hc # None THEN s1
  ELSE IF s.promise = "none"
    THEN [s1 EXCEPT !.promise = "pending", !.factoryCalls = @ + 1]
  ELSE s1

\* a memo lookup that Reload bypasses
MemoGetUnlessReload(m, t) == IF t.setting = "reload" THEN None ELSE m[t.url]

\* the memo lookup of fetchOnce
MemoGet(m, t) == m[t.url]

\* fetchOnce that does not look at allowRemote
DoCallRemoteAllowed(s, p) ==
  LET u  == s.t.url
      scheme == Protocol(u)
      s1 == [s EXCEPT !.t.calls = @ + 1, !.t.onceOut = None,
                      !.t.seenFirst = s.first[u], !.t.seenSettled = s.settled[u],
                      !.t.memoHit = (scheme # "file:" /\ MemoGet(s.memo, s.t) # None)]
  IN IF scheme \notin SUPPORTED_SCHEMES THEN OnceReturn(s1, p, Err("TypeError"))
     ELSE IF scheme = "file:" THEN [s1 EXCEPT !.t.pc = "awaitFile"]
     ELSE IF MemoGet(s.memo, s.t) # None THEN OnceReturn(s1, p, MemoGet(s.memo, s.t))
     ELSE ResolveHttpCache(s1, p)

\* fetchOnce, up to its first await
DoCall(s, p) ==
  LET u  == s.t.url
      scheme == Protocol(u)
      s1 == [s EXCEPT !.t.calls = @ + 1, !.t.onceOut = None,
                      !.t.seenFirst = s.first[u], !.t.seenSettled = s.settled[u],
                      !.t.memoHit = (scheme # "file:" /\ MemoGet(s.memo, s.t) # None)]
  IN IF scheme \notin SUPPORTED_SCHEMES THEN OnceReturn(s1, p, Err("TypeError"))
     ELSE IF scheme = "file:" THEN [s1 EXCEPT !.t.pc = "awaitFile"]
     ELSE IF MemoGet(s.memo, s.t) # None THEN OnceReturn(s1, p, MemoGet(s.memo, s.t))
     ELSE IF scheme \in {"data:", "blob:"} THEN ResolveHttpCache(s1, p)
     ELSE IF ~allowRemote THEN OnceReturn(s1, p, Err("PermissionDenied"))
     ELSE ResolveHttpCache(s1, p)

\* fetchCachedOnce: the entry of the cache as a response
FetchCachedOnce(s) ==
  LET r == HttpCacheGet(s.hc, s.global, s.vendor, writePerm, s.t.url, s.t.checksum)
      e == r.res
  IN [vendor |-> r.vendor,
      resp |-> IF e = None \/ e.kind = "error" THEN e
               ELSE IF e.headers.location # "" THEN Redirect(e.headers.location)
               ELSE Module(s.t.url, e.headers, e.content)]

\* the request of #fetchRemoteOnce: If-None-Match from the cached etag
IssueRemote(s) ==
  LET h == HttpCacheGetHeaders(s.hc, s.global, s.vendor, s.t.url) IN
  [s EXCEPT !.t.pc = "awaitHttp", !.t.iter = 1, !.t.reqs = @ + 1,
            !.t.inm = IF h = None THEN "" ELSE h.etag]

\* the request of #fetchBlobDataUrl
IssueData(s) == [s EXCEPT !.t.pc = "awaitHttp", !.t.iter = 1, !.t.reqs = @ + 1]

\* #fetchBlobDataUrl and #fetchRemoteOnce without the throw of NotFound
DoProbeOnlyUnchecked(s, p) ==
  LET u       == s.t.url
      isData  == Protocol(u) \in {"data:", "blob:"}
      setting == ResolveOptions(s.t.setting, cacheSetting)
      c  == IF isData \/ ShouldUseCache(setting, u) THEN FetchCachedOnce(s)
            ELSE [vendor |-> s.vendor, resp |-> None]
      s1 == [s EXCEPT !.vendor = c.vendor]
  IN IF c.resp # None THEN OncePipelineReturn(s1, p, c.resp)
     ELSE IF isData THEN IssueData(s1)
     ELSE IssueRemote(s1)

\* #fetchBlobDataUrl and #fetchRemoteOnce, up to the HTTP request
DoProbe(s, p) ==
  LET u       == s.t.url
      isData  == Protocol(u) \in {"data:", "blob:"}
      setting == ResolveOptions(s.t.setting, cacheSetting)
      c  == IF isData \/ ShouldUseCache(setting, u) THEN FetchCachedOnce(s)
            ELSE [vendor |-> s.vendor, resp |-> None]
      s1 == [s EXCEPT !.vendor = c.vendor]
  IN IF c.resp # None THEN OncePipelineReturn(s1, p, c.resp)
     ELSE IF setting = "only" THEN OncePipelineReturn(s1, p, Err("NotFound"))
     ELSE IF isData THEN IssueData(s1)
     ELSE IssueRemote(s1)

\* HttpCache.set as a step of a task
DoSet(s, url, headers, content) ==
  LET r == HttpCacheSet(s.hc, s.global, s.vendor, writePerm, url, headers, content) IN
  [s EXCEPT !.hc = r.hc, !.global = r.global, !.vendor = r.vendor,
            !.t.skipped = @ \/ r.skipped, !.t.res = IF r.err = None THEN @ ELSE r.err]

\* #fetchRemoteOnce that writes no redirect record
GotResponseNoRecord(s, p, res) ==
  IF Protocol(s.t.url) \in {"data:", "blob:"}
    THEN [s EXCEPT !.t.pc = "awaitBody", !.t.res = res]
  ELSE IF ~Ok(res)
    THEN IF res.status = 404 THEN OncePipelineReturn(s, p, Absent)
         ELSE OncePipelineReturn(s, p, HttpError(res.status))
  ELSE [s EXCEPT !.t.res = res, !.t.pc = "awaitBody"]

\* #fetchRemoteOnce that answers a 304 with the entry of the cache
GotResponseRevalidated(s, p, res) ==
  IF Protocol(s.t.url) \in {"data:", "blob:"}
    THEN [s EXCEPT !.t.pc = "awaitBody", !.t.res = res]
  ELSE IF res.status = 304
    THEN OncePipelineReturn(s, p, FetchCachedOnce([s EXCEPT !.t.checksum = None]).resp)
  ELSE IF ~Ok(res)
    THEN IF res.status = 404 THEN OncePipelineReturn(s, p, Absent)
         ELSE OncePipelineReturn(s, p, HttpError(res.status))
  ELSE LET s1 == [s EXCEPT !.t.res = res]
           s2 == IF s.t.url # res.url
                   THEN DoSet(s1, s.t.url, Headers(res.url, ""), "") ELSE s1
       IN IF s2.t.res.kind = "error" THEN OncePipelineReturn(s2, p, s2.t.res)
          ELSE [s2 EXCEPT !.t.pc = "awaitBody"]

\* the response is back from fetchWithRetries
GotResponse(s, p, res) ==
  IF Protocol(s.t.url) \in {"data:", "blob:"}
    THEN [s EXCEPT !.t.pc = "awaitBody", !.t.res = res]
  ELSE IF ~Ok(res)
    THEN IF res.status = 404 THEN OncePipelineReturn(s, p, Absent)
         ELSE OncePipelineReturn(s, p, HttpError(res.status))
  ELSE LET s1 == [s EXCEPT !.t.res = res]
           s2 == IF s.t.url # res.url
                   THEN DoSet(s1, s.t.url, Headers(res.url, ""), "") ELSE s1
       IN IF s2.t.res.kind = "error" THEN OncePipelineReturn(s2, p, s2.t.res)
          ELSE [s2 EXCEPT !.t.pc = "awaitBody"]

\* fetchWithRetries that keeps waiting once the retries of a network error
\* are used up
DoAnswerNoGiveUp(s, p, a) ==
  LET retry == [s EXCEPT !.t.iter = @ + 1, !.t.reqs = @ + 1] IN
  IF a.kind = "neterr"
    THEN IF s.t.iter > MaxRetries THEN s
         ELSE retry
  ELSE IF Ok(a) \/ s.t.iter > MaxRetries \/ (a.status >= 400 /\ a.status < 500)
    THEN GotResponse(s, p, a)
  ELSE retry

\* fetchWithRetries: one attempt has ended with a
DoAnswer(s, p, a) ==
  LET retry == [s EXCEPT !.t.iter = @ + 1, !.t.reqs = @ + 1] IN
  IF a.kind = "neterr"
    THEN IF s.t.iter > MaxRetries THEN OncePipelineReturn(s, p, Err("NetworkError"))
         ELSE retry
  ELSE IF Ok(a) \/ s.t.iter > MaxRetries \/ (a.status >= 400 /\ a.status < 500)
    THEN GotResponse(s, p, a)
  ELSE retry

\* the entry is written without the headers of the response
DoBodyNoHeaders(s, p) ==
  LET res     == s.t.res
      isData  == Protocol(s.t.url) \in {"data:", "blob:"}
      url     == IF isData THEN s.t.url ELSE res.url
      headers == Headers("", res.etag)
      s1      == DoSet(s, url, Headers("", ""), res.body)
  IN IF s1.t.res.kind = "error" THEN OncePipelineReturn(s1, p, s1.t.res)
     ELSE IF ~isData /\ s.t.checksum # None THEN [s1 EXCEPT !.t.pc = "awaitDigest"]
     ELSE OncePipelineReturn(s1, p, Module(url, headers, res.body))

\* the body is read: with a checksum, the digest is computed before the
\* entry is written
DoBodyVerifyFirst(s, p) ==
  LET res     == s.t.res
      isData  == Protocol(s.t.url) \in {"data:", "blob:"}
      url     == IF isData THEN s.t.url ELSE res.url
      headers == Headers("", res.etag)
      s1      == DoSet(s, url, headers, res.body)
  IN IF ~isData /\ s.t.checksum # None THEN [s EXCEPT !.t.pc = "awaitDigest"]
     ELSE IF s1.t.res.kind = "error" THEN OncePipelineReturn(s1, p, s1.t.res)
     ELSE OncePipelineReturn(s1, p, Module(url, headers, res.body))

\* the body is read: the entry is written, then the checksum is verified
DoBody(s, p) ==
  LET res     == s.t.res
      isData  == Protocol(s.t.url) \in {"data:", "blob:"}
      url     == IF isData THEN s.t.url ELSE res.url
      headers == Headers("", res.etag)
      s1      == DoSet(s, url, headers, res.body)
  IN IF s1.t.res.kind = "error" THEN OncePipelineReturn(s1, p, s1.t.res)
     ELSE IF ~isData /\ s.t.checksum # None THEN [s1 EXCEPT !.t.pc = "awaitDigest"]
     ELSE OncePipelineReturn(s1, p, Module(url, headers, res.body))

\* the digest is computed
DoDigest(s, p) ==
  LET res == s.t.res IN
  IF Sha256(res.body) # s.t.checksum
    THEN OncePipelineReturn(s, p, Err("ChecksumMismatch"))
  ELSE OncePipelineReturn(s, p, Module(res.url, Headers("", res.etag), res.body))

(***************************************************************************)
(* The Fetcher: initial states                                             *)
(***************************************************************************)
EmptyStore == [u \in CacheUrls |-> None]

ApiIdle ==
  /\ seed = None
  /\ creates = 0
  /\ ops = 0
  /\ lastSet = <<>>
  /\ ret = None
  /\ authStr = None
  /\ authTokens = <<>>
  /\ authRet = None
  /\ arg = None
  /\ result = None

StoreIdle ==
  /\ files = <<>>
  /\ inodes = <<>>
  /\ dirExists = FALSE
  /\ writer = <<>>
  /\ old = None
  /\ crashes = 0
  /\ ApiIdle

\* the options a call can be made with: fetch takes no checksum
Option(kind, url, setting, checksum) ==
  [kind |-> kind, url |-> url, setting |-> setting, checksum |-> checksum]
Settings == {"default", "only", "reload"}

Mode(ro, vr, perm) == [readOnly |-> ro, vendorRoot |-> vr, perm |-> perm]
DefaultMode == Mode("undefined", FALSE, TRUE)
Modes ==
  {DefaultMode,
   Mode("undefined", FALSE, FALSE), Mode("true", FALSE, TRUE),
   Mode("undefined", TRUE, TRUE), Mode("true", TRUE, TRUE),
   Mode("undefined", TRUE, FALSE), Mode("false", FALSE, FALSE)}

StoreOf(a, b) == [u \in CacheUrls |-> IF u = UrlA THEN a ELSE IF u = UrlB THEN b ELSE None]
OriginOf(a, b) == [u \in RemoteUrls |-> IF u = UrlA THEN a ELSE b]

Run(mode, remote, g, o, w) ==
  [mode |-> mode, allowRemote |-> remote, global |-> g, origin |-> o, workload |-> w]

\* one URL under every cache setting and checksum
RunsOneUrl ==
  {Run(DefaultMode, TRUE, StoreOf(a, None), OriginOf(o, "ok"),
       {Option("once", UrlA, s, c) : s \in Settings, c \in Checksums}) :
     a \in {None, ModuleEntry(BodyStale)}, o \in {"ok", "404"}}

\* redirects, of the origin and of the records of the store
RedirectWorkload ==
  {Option(k, UrlA, s, None) : k \in {"fetch", "once"}, s \in Settings}
    \cup {Option("once", UrlB, "default", None)}

VendorMode == Mode("undefined", TRUE, TRUE)

RunsRedirect ==
  {Run(DefaultMode, TRUE, StoreOf(None, None), OriginOf("redirect", o), RedirectWorkload) :
     o \in OriginKinds}
  \cup
  {Run(DefaultMode, TRUE, g, o, RedirectWorkload) :
     g \in {StoreOf(RedirectEntry(UrlB), ModuleEntry(BodyStale)),
            StoreOf(RedirectEntry(UrlB), RedirectEntry(UrlA))},
     o \in {OriginOf("redirect", "ok"), OriginOf("ok", "ok")}}
  \cup
  {Run(m, TRUE, g, OriginOf("redirect", "ok"), RedirectWorkload) :
     m \in {DefaultMode, VendorMode},
     g \in {StoreOf(RedirectEntry(UrlB), None), StoreOf(None, ModuleEntry(BodyStale))}}
  \cup
  {Run(Mode("true", FALSE, TRUE), TRUE, EmptyStore, OriginOf("redirect", "ok"),
       {Option("once", UrlA, "default", None), Option("once", UrlB, "default", None),
        Option("once", UrlA, "default", Sha256(BodyStale))})}

\* every mode of the cache and every scheme
ModesWorkload ==
  {Option("fetch", UrlA, s, None) : s \in Settings}
    \cup {Option("once", UrlD, s, None) : s \in {"default", "only"}}
    \cup {Option("once", UrlF, "default", None), Option("once", UrlW, "default", None)}

RunsModes ==
  {Run(m, TRUE, StoreOf(a, None), OriginOf("ok", "ok"), ModesWorkload) :
     m \in Modes, a \in {None, ModuleEntry(BodyStale)}}
  \cup
  {Run(m, FALSE, EmptyStore, OriginOf("ok", "ok"), ModesWorkload) :
     m \in {DefaultMode, Mode("true", FALSE, TRUE)}}

\* FetchCacher.load, with and without remote modules
LoadWorkload ==
  {Option("load", UrlA, s, c) : s \in Settings, c \in {None, Sha256(BodyNew)}}
    \cup {Option("load", UrlB, "only", None), Option("load", UrlW, "default", None)}

RunsLoad ==
  {Run(DefaultMode, TRUE, StoreOf(None, None), OriginOf("404", "ok"), LoadWorkload),
   Run(DefaultMode, TRUE, StoreOf(ModuleEntry(BodyStale), None), OriginOf("ok", "ok"),
       LoadWorkload),
   Run(DefaultMode, FALSE, StoreOf(None, None), OriginOf("ok", "ok"), LoadWorkload)}

\* allowRemote = false over a store that holds the URL
NoRemoteWorkload ==
  {Option(k, UrlA, s, None) : k \in {"fetch", "once"}, s \in Settings}
    \cup {Option("once", UrlD, "default", None)}

RunsNoRemote ==
  {Run(DefaultMode, FALSE, g, OriginOf("ok", "ok"), NoRemoteWorkload) :
     g \in {StoreOf(ModuleEntry(BodyNew), None),
            StoreOf(RedirectEntry(UrlB), ModuleEntry(BodyNew))}}

\* Reload and a list of prefixes to reload, over a store that holds the URLs
ReloadWorkload ==
  {Option("once", UrlA, s, None) : s \in {"default", "reload", ReloadA}}
    \cup {Option("once", UrlB, s, None) : s \in {"reload", ReloadA}}

RunsReload ==
  {Run(DefaultMode, TRUE, StoreOf(ModuleEntry(b), ModuleEntry(BodyStale)),
       OriginOf("ok", "404"), ReloadWorkload) : b \in Bodies}

\* fetchOnce with a checksum, of a redirect record and of its target
CheckedWorkload ==
  {Option("once", u, s, Sha256(BodyNew)) : u \in RemoteUrls, s \in {"default", "only"}}

RunsChecked ==
  {Run(m, TRUE, StoreOf(RedirectEntry(UrlB), ModuleEntry(BodyNew)), OriginOf("ok", "ok"),
       CheckedWorkload) : m \in {DefaultMode, VendorMode}}
  \cup
  {Run(DefaultMode, TRUE, EmptyStore, OriginOf("redirect", "ok"),
       {Option("once", UrlA, "default", c) : c \in {Sha256(b) : b \in Bodies}})}
  \cup
  {Run(DefaultMode, TRUE, EmptyStore, OriginOf("ok", "ok"),
       {Option("once", UrlA, "default", Sha256Upper(BodyNew))})}

\* data: URLs, one that fetch can decode and one that it rejects
RunsData ==
  {Run(DefaultMode, TRUE, EmptyStore, OriginOf("ok", "ok"),
       {Option("once", UrlD, "default", None), Option("once", UrlDBad, "default", None)})}

Runs ==
  RunsOneUrl \cup RunsRedirect \cup RunsModes \cup RunsLoad \cup RunsNoRemote
    \cup RunsReload \cup RunsChecked \cup RunsData

InitRun(r) ==
  /\ origin = r.origin
  /\ writePerm = r.mode.perm
  /\ global = r.global
  /\ allowRemote = r.allowRemote
  /\ createOpts = [readOnly |-> r.mode.readOnly, vendorRoot |-> r.mode.vendorRoot]
  /\ workload = r.workload
  /\ vendor = EmptyStore
  /\ cacheSetting = "use"
  /\ httpCache = None
  /\ httpCachePromise = "none"
  /\ factoryCalls = 0
  /\ memo = [u \in Specifiers |-> None]
  /\ task = [p \in Tasks |-> IdleTask]
  /\ waiters = <<>>
  /\ started = 0
  /\ faults = 0
  /\ first = [u \in Specifiers |-> None]
  /\ settled = [u \in Specifiers |-> None]
  /\ populated = [u \in Specifiers |-> None]

Init ==
  /\ \E r \in Runs : InitRun(r)
  /\ StoreIdle

(***************************************************************************)
(* The Fetcher: actions                                                    *)
(***************************************************************************)
\* a continuation is queued as a microtask: the next fetchOnce of the loop of
\* fetch, or the call at the head of the waiters of a settled HttpCache promise
CacheSettled == httpCache # None \/ httpCachePromise = "rejected"
Drained ==
  /\ \A p \in Tasks : task[p].pc # "call"
  /\ waiters # <<>> => ~CacheSettled

\* user code calls fetch(url, options) or fetchOnce(url, options): the call
\* runs up to its first await
Start(p, o) ==
  /\ started < MaxFetches
  /\ task[p].pc \in {"idle", "done"}
  /\ \A q \in Tasks : q < p => task[q].pc \notin {"idle", "done"}
  /\ started' = started + 1
  /\ Commit(p, DoCall([St(p) EXCEPT !.t =
       [IdleTask EXCEPT !.pc = "call", !.kind = o.kind, !.orig = o.url,
                        !.url = o.url, !.setting = o.setting,
                        !.checksum = o.checksum,
                        !.seenPopulated = populated[o.url]]], p))
  /\ UNCHANGED <<confVars, faults, storeVars>>

\* user code drops the Fetcher once its calls have returned, and constructs
\* another one over the same stores
NewFetcher ==
  /\ started > 0
  /\ \A p \in Tasks : task[p].pc \in {"idle", "done"}
  /\ httpCache' = None
  /\ httpCachePromise' = "none"
  /\ factoryCalls' = 0
  /\ memo' = [u \in Specifiers |-> None]
  /\ task' = [p \in Tasks |-> IdleTask]
  /\ first' = [u \in Specifiers |-> None]
  /\ settled' = [u \in Specifiers |-> None]
  /\ populated' = [u \in Specifiers |->
                     IF populated[u] = None THEN None
                     ELSE [populated[u] EXCEPT !.here = FALSE]]
  /\ UNCHANGED <<confVars, envVars, waiters, started, faults, storeVars>>

\* fetch, after a Redirect: the next fetchOnce runs up to its first await
Call(p) ==
  /\ task[p].pc = "call"
  /\ Commit(p, DoCall(St(p), p))
  /\ UNCHANGED <<confVars, started, faults, storeVars>>

\* the promise of the factory is fulfilled: HttpCache.create has returned
FactoryResolve ==
  /\ Drained
  /\ httpCachePromise = "pending"
  /\ httpCache' = HttpCacheCreate(createOpts, factoryCalls)
  /\ httpCachePromise' = "none"
  /\ UNCHANGED <<envVars, allowRemote, cacheSetting, createOpts, factoryCalls,
                 memo, callVars, workload, histVars, storeVars>>

\* the promise of the factory is rejected: it stays the promise of the Fetcher
FactoryReject ==
  /\ Drained
  /\ httpCachePromise = "pending"
  /\ httpCachePromise' = "rejected"
  /\ UNCHANGED <<envVars, allowRemote, cacheSetting, createOpts, httpCache,
                 factoryCalls, memo, callVars, workload, histVars, storeVars>>

\* the call that awaited the promise first goes on with the cache, up to its
\* HTTP request
CacheReady(p) ==
  /\ waiters # <<>> /\ Head(waiters) = p
  /\ httpCache # None
  /\ Commit(p, DoProbe([St(p) EXCEPT !.t.inst = httpCache.id,
                                     !.waiters = Tail(@)], p))
  /\ UNCHANGED <<confVars, started, faults, storeVars>>

\* a Fetcher that drops the promise of the factory once it has thrown its
\* rejection to a call
CacheFailedForgets(p) ==
  /\ waiters # <<>> /\ Head(waiters) = p
  /\ httpCachePromise = "rejected"
  /\ Commit(p, OnceReturn([St(p) EXCEPT !.waiters = Tail(@), !.promise = "none"],
                          p, Err("FactoryError")))
  /\ UNCHANGED <<confVars, started, faults, storeVars>>

\* the call that awaited the promise first is thrown its rejection
CacheFailed(p) ==
  /\ waiters # <<>> /\ Head(waiters) = p
  /\ httpCachePromise = "rejected"
  /\ Commit(p, OnceReturn([St(p) EXCEPT !.waiters = Tail(@)], p, Err("FactoryError")))
  /\ UNCHANGED <<confVars, started, faults, storeVars>>

\* an HTTP attempt ends with the answer of the origin
HttpAnswer(p) ==
  /\ Drained
  /\ task[p].pc = "awaitHttp"
  /\ Commit(p, DoAnswer(St(p), p, OriginAnswer(origin, task[p].url, task[p].inm)))
  /\ UNCHANGED <<confVars, started, faults, storeVars>>

\* an HTTP attempt ends with a transient failure
HttpFault(p, a) ==
  /\ Drained
  /\ task[p].pc = "awaitHttp"
  /\ task[p].url \in RemoteUrls
  /\ faults < MaxFaults
  /\ faults' = faults + 1
  /\ Commit(p, DoAnswer(St(p), p, a))
  /\ UNCHANGED <<confVars, started, storeVars>>

BodyArrived(p) ==
  /\ Drained
  /\ task[p].pc = "awaitBody"
  /\ Commit(p, DoBody(St(p), p))
  /\ UNCHANGED <<confVars, started, faults, storeVars>>

DigestDone(p) ==
  /\ Drained
  /\ task[p].pc = "awaitDigest"
  /\ Commit(p, DoDigest(St(p), p))
  /\ UNCHANGED <<confVars, started, faults, storeVars>>

\* fetchLocal whose Module is memoized
FileReadMemoized(p, ok) ==
  /\ Drained
  /\ task[p].pc = "awaitFile"
  /\ Commit(p, OncePipelineReturn(St(p), p,
              IF ok THEN Module(task[p].url, None, BodyNew) ELSE Absent))
  /\ UNCHANGED <<confVars, started, faults, storeVars>>

\* fetchLocal: the file as a Module, or absent when it cannot be read
FileRead(p, ok) ==
  /\ Drained
  /\ task[p].pc = "awaitFile"
  /\ Commit(p, OnceReturn(St(p), p,
              IF ok THEN Module(task[p].url, None, BodyNew) ELSE Absent))
  /\ UNCHANGED <<confVars, started, faults, storeVars>>

Next ==
  \/ \E p \in Tasks : \E o \in workload : Start(p, o)
  \/ NewFetcher
  \/ \E p \in Tasks : Call(p)
  \/ FactoryResolve
  \/ \E p \in Tasks : CacheReady(p)
  \/ \E p \in Tasks : HttpAnswer(p)
  \/ \E p \in Tasks : \E a \in TransientAnswers(task[p].url) : HttpFault(p, a)
  \/ \E p \in Tasks : BodyArrived(p)
  \/ \E p \in Tasks : DigestDone(p)
  \/ \E p \in Tasks, ok \in BOOLEAN : FileRead(p, ok)

Spec == Init /\ [][Next]_vars

\* a continuation that is queued runs, or a promise that a call awaits
\* settles: that of the factory, an HTTP attempt with its answer, the read of
\* a body, a digest, the read of a file
Progress ==
  \/ FactoryResolve
  \/ \E p \in Tasks :
       \/ Call(p)
       \/ CacheReady(p)
       \/ HttpAnswer(p)
       \/ BodyArrived(p)
       \/ DigestDone(p)
       \/ \E ok \in BOOLEAN : FileRead(p, ok)

\* the event loop does not stop while a continuation is ready or a promise
\* can settle
Fairness == WF_vars(Progress)

\* the runs whose calls are followed to their end: a cycle of redirect
\* records, an origin whose redirects never end, and every kind of await
RunsLive ==
  {Run(DefaultMode, TRUE, StoreOf(RedirectEntry(UrlB), RedirectEntry(UrlA)),
       OriginOf("ok", "ok"),
       {Option("fetch", UrlA, "default", None), Option("once", UrlB, "reload", None)}),
   Run(DefaultMode, TRUE, EmptyStore, OriginOf("redirect", "redirect"),
       {Option("fetch", UrlA, "default", None)}),
   Run(DefaultMode, TRUE, StoreOf(ModuleEntry(BodyStale), None), OriginOf("ok", "404"),
       {Option("once", UrlA, "reload", Sha256(BodyNew)),
        Option("once", UrlF, "default", None), Option("fetch", UrlD, "default", None)})}

InitLive ==
  /\ \E r \in RunsLive : InitRun(r)
  /\ StoreIdle

SpecLive == InitLive /\ [][Next]_vars /\ Fairness

NextFactory ==
  \/ Next
  \/ FactoryReject
  \/ \E p \in Tasks : CacheFailed(p)

SpecFactory == Init /\ [][NextFactory]_vars

(***************************************************************************)
(* Properties of the Fetcher                                               *)
(***************************************************************************)
Done(p)       == task[p].pc = "done"
SettingOf(p)  == ResolveOptions(task[p].setting, cacheSetting)
NotCached(u)  == global[u] = None /\ vendor[u] = None
IsRemote(u)   == Protocol(u) \in {"http:", "https:"}
ViaCache(u)   == Protocol(u) \in {"http:", "https:", "data:", "blob:"}

\* a fetchOnce with Only of a URL of which the stores hold nothing has returned
OnlyUncached(p) ==
  /\ Done(p) /\ task[p].calls = 1
  /\ task[p].kind \in {"fetch", "once"}
  /\ SettingOf(p) = "only"
  /\ ViaCache(task[p].url)
  /\ NotCached(task[p].url)

\* C1, as claimed: with cache_setting = Only, a fetch of an http, https, data
\* or blob URL that is not in the cache fails with NotFound, and issues no
\* HTTP request.
C1_OnlyUncachedIsNotFound ==
  \A p \in Tasks :
    OnlyUncached(p) => task[p].out = Err("NotFound") /\ task[p].reqs = 0

\* C1, amended: with cache_setting = Only, a fetch of an http, https, data or
\* blob URL that is in neither store issues no HTTP request; unless the memo of
\* the Fetcher answers it, it fails: with PermissionDenied for an http(s) URL
\* when allow_remote is false, with NotFound otherwise.
C1_OnlyUncachedFails ==
  \A p \in Tasks :
    OnlyUncached(p) =>
      /\ task[p].reqs = 0
      /\ ~task[p].memoHit =>
           task[p].out = IF IsRemote(task[p].url) /\ ~allowRemote
                           THEN Err("PermissionDenied") ELSE Err("NotFound")
      /\ task[p].memoHit => IsResponse(task[p].out)

C1_Witness ==
  \E p \in Tasks :
    /\ OnlyUncached(p) /\ ~task[p].memoHit /\ allowRemote
    /\ IsRemote(task[p].url)
    /\ task[p].out = Err("NotFound")

\* C2, as claimed: after the first fetchOnce of a specifier has returned a
\* response, every fetchOnce of that specifier that starts later returns the
\* same response.
C2_SameAsFirstCompleted ==
  \A p \in Tasks :
    (/\ ViaCache(task[p].url)
     /\ task[p].seenFirst # None
     /\ task[p].onceOut # None) =>
      task[p].onceOut = task[p].seenFirst

\* C2, amended: once a fetchOnce of an http, https, data or blob specifier has
\* returned a response while no other fetchOnce of that specifier was in
\* flight, every fetchOnce of that specifier that starts later returns the
\* same response, whatever its cache setting and checksum and the stores.
C2_SameAsSettled ==
  \A p \in Tasks :
    (/\ ViaCache(task[p].url)
     /\ task[p].seenSettled # None
     /\ task[p].onceOut # None) =>
      task[p].onceOut = task[p].seenSettled

\* a Reload, after the memo had settled on the stale Module of the store
C2_Witness ==
  \E p \in Tasks :
    /\ Done(p) /\ SettingOf(p) = "reload"
    /\ task[p].seenSettled # None
    /\ task[p].seenSettled.kind = "module"
    /\ task[p].seenSettled.content = BodyStale
    /\ task[p].onceOut = task[p].seenSettled

\* C3, as claimed: fetch runs fetchOnce at most 10 times.
C3_AtMostTenCalls ==
  \A p \in Tasks : task[p].calls <= 10

\* C3, amended: fetch runs fetchOnce at most 11 times, substituting the
\* redirect target after each Redirect; it fails with TooManyRedirects exactly
\* when the 11th result is still a Redirect, and never returns a Redirect.
C3_AtMostElevenCalls ==
  \A p \in Tasks :
    /\ task[p].calls <= MaxRedirects + 1
    /\ task[p].out = Err("TooManyRedirects") =>
         /\ task[p].calls = MaxRedirects + 1
         /\ task[p].onceOut.kind = "redirect"
    /\ (Done(p) /\ task[p].kind = "fetch") =>
         /\ task[p].out.kind # "redirect"
         /\ (task[p].onceOut.kind = "redirect") = (task[p].out = Err("TooManyRedirects"))

C3_Witness ==
  \E p \in Tasks :
    Done(p) /\ task[p].out = Err("TooManyRedirects") /\ task[p].calls = 11

\* C4, as claimed: a fetchOnce called with a checksum returns a Module only if
\* the SHA-256 of the content equals the checksum, after any earlier fetches.
C4_ModuleMatchesChecksum ==
  \A p \in Tasks :
    (/\ Done(p) /\ task[p].kind = "once"
     /\ task[p].checksum # None
     /\ task[p].out.kind = "module") =>
      Sha256(task[p].out.content) = task[p].checksum

\* a fetch(U) that starts after a fetch(U) has filled a writable cache from an
\* origin that redirects U
FollowUp(p) ==
  /\ Done(p) /\ task[p].kind = "fetch"
  /\ task[p].seenPopulated # None
  /\ task[p].orig \in RemoteUrls
  /\ origin[task[p].orig] = "redirect"

\* C5, as claimed: the origin redirects U to V; after one completed fetch(U)
\* against a writable cache, a follow-up fetch(U), on the same or on a new
\* Fetcher, issues no HTTP request and returns the Module stored at V.
C5_FollowUpFromCache ==
  \A p \in Tasks :
    FollowUp(p) =>
      task[p].reqs = 0 /\ task[p].out = task[p].seenPopulated.resp

\* C5, amended: the origin redirects U to V; after one completed fetch(U)
\* against a writable cache, a follow-up fetch(U) on the same Fetcher, or on
\* a new Fetcher with cache setting Use or Only, issues no HTTP request and
\* returns the Module stored at V.
C5_FollowUpMemoOrCache ==
  \A p \in Tasks :
    (FollowUp(p) /\ (task[p].seenPopulated.here \/ SettingOf(p) \in {"use", "only"})) =>
      /\ task[p].reqs = 0
      /\ task[p].out = task[p].seenPopulated.resp
      /\ task[p].out.specifier = FinalUrl(origin, task[p].orig)

\* on a new Fetcher: the redirect record and the entry at V are read
C5_Witness ==
  \E p \in Tasks :
    /\ FollowUp(p) /\ ~task[p].seenPopulated.here
    /\ task[p].calls = 2 /\ task[p].reqs = 0
    /\ task[p].out.kind = "module" /\ task[p].out.specifier = UrlB

\* a fetch with Only that starts after a fetch with Use has filled a writable
\* cache with the URL
OnlyAfterUse(p) ==
  /\ Done(p) /\ task[p].kind = "fetch"
  /\ task[p].seenPopulated # None
  /\ task[p].seenPopulated.setting = "use"
  /\ SettingOf(p) = "only"

\* C6: after a fetch with Use has populated a writable cache with a URL, a
\* later fetch of the URL with Only returns the same Module and issues no
\* HTTP request.
C6_OnlyAfterUse ==
  \A p \in Tasks :
    OnlyAfterUse(p) =>
      task[p].reqs = 0 /\ task[p].out = task[p].seenPopulated.resp

\* on a new Fetcher: the Module comes from the store, not from the memo
C6_Witness ==
  \E p \in Tasks :
    /\ OnlyAfterUse(p) /\ ~task[p].seenPopulated.here
    /\ task[p].out.kind = "module" /\ task[p].out.content = BodyNew

ReadOnlyMode ==
  \/ createOpts.readOnly = "true"
  \/ createOpts.readOnly = "undefined" /\ ~writePerm

\* C7: in read-only mode (readOnly true, or unspecified with the write
\* permission denied) no step of any get, getHeaders, set or fetch changes the
\* global or the vendor store; a set returns silently and the fetch that
\* called it returns its Module.
C7_ReadOnlyWritesNothing ==
  /\ [][ReadOnlyMode => (global' = global /\ vendor' = vendor)]_vars
  /\ [](\A p \in Tasks :
          (Done(p) /\ task[p].skipped /\ task[p].checksum = None) =>
            /\ ReadOnlyMode
            /\ task[p].out.kind = "module"
            /\ task[p].out.content = BodyNew)

C7_Witness ==
  \E p \in Tasks :
    /\ ReadOnlyMode /\ Done(p) /\ task[p].skipped
    /\ task[p].reqs > 0 /\ task[p].out.kind = "module"
    /\ global = StoreOf(None, None) /\ vendor = EmptyStore

\* C8: on one Fetcher the factory of the HttpCache is invoked at most once,
\* also by first calls in flight together, and every caller is given the same
\* HttpCache instance.
C8_FactoryOnce ==
  /\ factoryCalls <= 1
  /\ \A p \in Tasks : task[p].inst # 0 => task[p].inst = 1 /\ httpCache.id = 1
  /\ httpCache # None => httpCache.id = 1 /\ factoryCalls = 1

\* two first calls wait for the one promise
C8_Witness ==
  /\ factoryCalls = 1
  /\ \A p \in Tasks : task[p].pc = "awaitCache"

(***************************************************************************)
(* The global store at the granularity of files.  GlobalHttpCache.set      *)
(* writes the content file and then the metadata sidecar, each with        *)
(* atomic_write_file (src/rs_lib/fs.js); a process can be killed between   *)
(* any two system calls.                                                   *)
(***************************************************************************)
Writers    == {1, 2}
MaxCrashes == 1

\* the values of randomHex() the model draws from
TempNames == {"00aa", "ffff"}

ContentPath == "entry"
SidecarPath == "entry.metadata.json"
TempPath(path, hex) == path \o "." \o hex
Paths == {ContentPath, SidecarPath}
           \cup {TempPath(path, h) : path \in {ContentPath, SidecarPath}, h \in TempNames}

\* the bytes of a file whose write has not completed
Torn == "torn"

\* the pairs of the model: 0 is the pair an earlier run has left, k is the pair
\* writer k sets
PairIds == {1, 2}
BodyOf(k)    == IF k = 0 THEN "B0" ELSE IF k = 1 THEN "B1" ELSE "B2"
HeadersOf(k) == IF k = 0 THEN "H0" ELSE IF k = 1 THEN "H1" ELSE "H2"
Pair(k)      == Entry(HeadersOf(k), BodyOf(k))

IdleWriter ==
  [pc |-> "idle", k |-> 0, phase |-> "content", temp |-> "", fd |-> 0,
   retried |-> FALSE]

ActivePcs == {"open", "mkdir", "fill", "rename", "remove"}

\* the path and the bytes of the atomic_write_file call a writer is in
PathOf(wr)  == IF wr.phase = "content" THEN ContentPath ELSE SidecarPath
BytesOf(wr) == IF wr.phase = "content" THEN BodyOf(wr.k) ELSE HeadersOf(wr.k)

\* GlobalHttpCache.get: the sidecar is read, then the content; without either
\* there is no entry
StoreGet(f, ino) ==
  IF f[SidecarPath] = 0 \/ f[ContentPath] = 0 THEN None
  ELSE Entry(ino[f[SidecarPath]], ino[f[ContentPath]])

InitStore ==
  /\ InitRun(Run(DefaultMode, TRUE, EmptyStore, OriginOf("ok", "ok"), {}))
  /\ ApiIdle
  /\ writer = [w \in Writers |-> IdleWriter]
  /\ crashes = 0
  /\ \/ /\ old = None
        /\ files = [path \in Paths |-> 0]
        /\ inodes = <<>>
        /\ dirExists \in BOOLEAN
     \/ /\ old = Pair(0)
        /\ files = [path \in Paths |->
                      IF path = ContentPath THEN 1
                      ELSE IF path = SidecarPath THEN 2 ELSE 0]
        /\ inodes = <<BodyOf(0), HeadersOf(0)>>
        /\ dirExists = TRUE

fetchVars == <<envVars, fetcherVars, callVars, workload, histVars, apiVars>>

\* GlobalHttpCache.set begins: atomic_write_file of the content draws its
\* temporary name
SetStart(w, h) ==
  /\ writer[w].pc = "idle"
  /\ \A v \in Writers : v < w => writer[v].pc # "idle"
  /\ writer' = [writer EXCEPT ![w] =
       [IdleWriter EXCEPT !.pc = "open", !.k = w, !.temp = TempPath(ContentPath, h)]]
  /\ UNCHANGED <<files, inodes, dirExists, old, crashes, fetchVars>>

\* Deno.writeFileSync opens the temporary file: created, or truncated when a
\* file of that name exists; NotFound without the parent directory
Open(w) ==
  LET wr == writer[w] IN
  /\ wr.pc = "open"
  /\ IF ~dirExists
       THEN /\ writer' = [writer EXCEPT ![w].pc = IF wr.retried THEN "failed" ELSE "mkdir"]
            /\ UNCHANGED <<files, inodes>>
     ELSE IF files[wr.temp] = 0
       THEN /\ inodes' = Append(inodes, Torn)
            /\ files' = [files EXCEPT ![wr.temp] = Len(inodes) + 1]
            /\ writer' = [writer EXCEPT ![w].pc = "fill", ![w].fd = Len(inodes) + 1]
     ELSE /\ inodes' = [inodes EXCEPT ![files[wr.temp]] = Torn]
          /\ files' = files
          /\ writer' = [writer EXCEPT ![w].pc = "fill", ![w].fd = files[wr.temp]]
  /\ UNCHANGED <<dirExists, old, crashes, fetchVars>>

\* Deno.mkdirSync(parentPath(path), { recursive: true }), its error ignored
Mkdir(w, ok) ==
  /\ writer[w].pc = "mkdir"
  /\ dirExists' = (dirExists \/ ok)
  /\ writer' = [writer EXCEPT ![w].pc = "open", ![w].retried = TRUE]
  /\ UNCHANGED <<files, inodes, old, crashes, fetchVars>>

\* Deno.writeFileSync has written the bytes to the file it opened; while
\* another writer writes to the same file the outcome is either's bytes or a
\* mixture of both
Fill(w, whole) ==
  LET wr == writer[w] IN
  /\ wr.pc = "fill"
  /\ whole \/ \E v \in Writers \ {w} : writer[v].pc = "fill" /\ writer[v].fd = wr.fd
  /\ inodes' = [inodes EXCEPT ![wr.fd] = IF whole THEN BytesOf(wr) ELSE Torn]
  /\ writer' = [writer EXCEPT ![w].pc = "rename"]
  /\ UNCHANGED <<files, dirExists, old, crashes, fetchVars>>

\* where set goes on after a rename: the sidecar after the content
AfterRename(wr, h) ==
  IF wr.phase = "content"
    THEN [wr EXCEPT !.pc = "open", !.phase = "sidecar", !.fd = 0,
                    !.temp = TempPath(SidecarPath, h), !.retried = FALSE]
    ELSE [wr EXCEPT !.pc = "done", !.fd = 0]

\* Deno.renameSync(tempName, path): the path names the temporary file's inode
Rename(w, h) ==
  LET wr == writer[w] IN
  /\ wr.pc = "rename"
  /\ files[wr.temp] # 0
  /\ files' = [files EXCEPT ![PathOf(wr)] = files[wr.temp], ![wr.temp] = 0]
  /\ writer' = [writer EXCEPT ![w] = AfterRename(wr, h)]
  /\ UNCHANGED <<inodes, dirExists, old, crashes, fetchVars>>

\* Deno.renameSync throws: the file system refuses, or the temporary file is
\* gone
RenameFail(w) ==
  /\ writer[w].pc = "rename"
  /\ writer' = [writer EXCEPT ![w].pc = "remove"]
  /\ UNCHANGED <<files, inodes, dirExists, old, crashes, fetchVars>>

\* atomic_write_file that returns after the temporary file is removed
RemoveAndReturn(w, ok) ==
  /\ writer[w].pc = "remove"
  /\ files' = IF ok THEN [files EXCEPT ![writer[w].temp] = 0] ELSE files
  /\ writer' = [writer EXCEPT ![w].pc = "done"]
  /\ UNCHANGED <<inodes, dirExists, old, crashes, fetchVars>>

\* Deno.removeSync(tempName): the temporary file is removed, or removeSync
\* throws and the error is ignored; the error of the rename is thrown and set
\* ends
Remove(w, ok) ==
  /\ writer[w].pc = "remove"
  /\ files' = IF ok THEN [files EXCEPT ![writer[w].temp] = 0] ELSE files
  /\ writer' = [writer EXCEPT ![w].pc = "failed"]
  /\ UNCHANGED <<inodes, dirExists, old, crashes, fetchVars>>

\* the process is killed
Crash(w) ==
  /\ writer[w].pc \in ActivePcs
  /\ crashes < MaxCrashes
  /\ crashes' = crashes + 1
  /\ writer' = [writer EXCEPT ![w].pc = "dead"]
  /\ UNCHANGED <<files, inodes, dirExists, old, fetchVars>>

NextStore ==
  \/ \E w \in Writers, h \in TempNames : SetStart(w, h)
  \/ \E w \in Writers : Open(w)
  \/ \E w \in Writers, ok \in BOOLEAN : Mkdir(w, ok)
  \/ \E w \in Writers, whole \in BOOLEAN : Fill(w, whole)
  \/ \E w \in Writers, h \in TempNames : Rename(w, h)
  \/ \E w \in Writers : RenameFail(w)
  \/ \E w \in Writers, ok \in BOOLEAN : Remove(w, ok)
  \/ \E w \in Writers : Crash(w)

SpecStore == InitStore /\ [][NextStore]_vars

(***************************************************************************)
(* Properties of the global store                                          *)
(***************************************************************************)
\* C9, as claimed: when the process is killed while set replaces the entry
\* (H0, B0) by (H, B), a later get returns (H0, B0) or (H, B), never new
\* content with old headers or old content with new headers.
C9_CrashLeavesOldOrNewPair ==
  \A w \in Writers :
    (/\ old # None
     /\ writer[w].pc = "dead"
     /\ \A v \in Writers \ {w} : writer[v].pc = "idle") =>
      StoreGet(files, inodes) \in {old, Pair(writer[w].k)}

\* C10, as claimed: in every state of the global store, also between any two
\* steps of a set and after a set that was interrupted, the content file of an
\* entry exists only if its metadata sidecar exists.
C10_ContentImpliesSidecar ==
  files[ContentPath] # 0 => files[SidecarPath] # 0

\* what a reader of the path gets: nothing, or the bytes of the inode
ReadFile(path) == IF files[path] = 0 THEN "" ELSE inodes[files[path]]

\* C11, as claimed: while atomic_write_file(path, bytes) runs, a reader of
\* the path sees no file, the complete previous content or the complete new
\* bytes; after two concurrent writers of the path, its content is the bytes
\* of one of them, never a partial or mixed file.
C11_ReaderSeesCompleteFile ==
  /\ \A path \in {ContentPath, SidecarPath} : ReadFile(path) # Torn
  /\ (\A w \in Writers : writer[w].pc = "done") =>
       ReadFile(ContentPath) \in {BodyOf(w) : w \in Writers}

(***************************************************************************)
(* The HttpCache used directly: create, get, getHeaders and set, as the    *)
(* tests of src/deno_dir_test.ts call them.  The entries of the stores are *)
(* keyed by the URL and the number of the destination.                     *)
(***************************************************************************)
MaxOps     == 3
MaxCreates == 2

Destinations == {"script", "json"}

\* destinationToWasmNumber that tells no destination from another
DestinationToWasmNumberAllScript(destination) == 0

\* destinationToWasmNumber: the number of the destination in the cache key
DestinationToWasmNumber(destination) ==
  CASE destination = "script" -> 0
    [] destination = "json"   -> 1
    [] OTHER                  -> 0

ApiUrls == {UrlA}
ApiKeys == {<<u, DestinationToWasmNumber(d)>> : u \in ApiUrls, d \in Destinations}
ApiKey(url, destination) == <<url, DestinationToWasmNumber(destination)>>
ApiHeaders == {Headers("", Etag(b)) : b \in Bodies}
ApiEmpty == [k \in ApiKeys |-> None]
ApiEntries == ApiUrls \X Destinations

\* the checksums a caller of get passes: none, the digest of a body in
\* either case, the string "invalid"
ApiChecksums ==
  Checksums \cup {Sha256Upper(b) : b \in Bodies} \cup {InvalidChecksum}

CreateOptions ==
  [readOnly : {"true", "false", "undefined"}, vendorRoot : BOOLEAN]

\* the state SpecCache starts from: no HttpCache yet, an empty vendor root, a
\* global store that is empty or holds the script at UrlA
InitApi ==
  /\ origin = OriginOf("ok", "ok")
  /\ writePerm \in BOOLEAN
  /\ global \in {ApiEmpty,
                 [ApiEmpty EXCEPT ![ApiKey(UrlA, "script")] = ModuleEntry(BodyStale)]}
  /\ seed = global
  /\ vendor = ApiEmpty
  /\ allowRemote = TRUE
  /\ cacheSetting = "use"
  /\ createOpts = [readOnly |-> "undefined", vendorRoot |-> FALSE]
  /\ httpCache = None
  /\ httpCachePromise = "none"
  /\ factoryCalls = 0
  /\ memo = [u \in Specifiers |-> None]
  /\ task = [p \in Tasks |-> IdleTask]
  /\ waiters = <<>>
  /\ started = 0
  /\ workload = {}
  /\ faults = 0
  /\ first = [u \in Specifiers |-> None]
  /\ settled = [u \in Specifiers |-> None]
  /\ populated = [u \in Specifiers |-> None]
  /\ files = <<>> /\ inodes = <<>> /\ dirExists = FALSE
  /\ writer = <<>> /\ old = None /\ crashes = 0
  /\ creates = 0 /\ ops = 0
  /\ lastSet = [e \in ApiEntries |-> None]
  /\ ret = None
  /\ authStr = None
  /\ authTokens = <<>>
  /\ authRet = None
  /\ arg = None
  /\ result = None

apiRest == <<origin, writePerm, allowRemote, cacheSetting, httpCachePromise,
             factoryCalls, memo, callVars, workload, histVars,
             files, inodes, dirExists, writer, old, crashes, seed, authVars,
             pureVars>>

\* what a call records of the state it ran in
Before(op, url, destination, checksum) ==
  [kind |-> "call", op |-> op, entry |-> <<url, destination>>,
   key |-> ApiKey(url, destination), checksum |-> checksum,
   global |-> global, vendor |-> vendor, res |-> None]

\* HttpCache.create(options); the instance in use before is disposed of
ApiCreate(opts) ==
  /\ creates < MaxCreates
  /\ creates' = creates + 1
  /\ createOpts' = opts
  /\ httpCache' = HttpCacheCreate(opts, creates + 1)
  /\ ret' = None
  /\ UNCHANGED <<apiRest, global, vendor, ops, lastSet>>

\* HttpCache.set(url, destination, headers, content)
ApiSet(url, destination, headers, content) ==
  LET key == ApiKey(url, destination)
      w   == HttpCacheSet(httpCache, global, vendor, writePerm, key, headers, content)
  IN /\ httpCache # None
     /\ ops < MaxOps
     /\ ops' = ops + 1
     /\ httpCache' = w.hc
     /\ global' = w.global
     /\ vendor' = w.vendor
     /\ lastSet' = [lastSet EXCEPT ![<<url, destination>>] = Entry(headers, content)]
     /\ ret' = [Before("set", url, destination, None) EXCEPT !.res = w.err]
     /\ UNCHANGED <<apiRest, createOpts, creates>>

\* HttpCache.get(url, destination, { checksum })
ApiGet(url, destination, checksum) ==
  LET key == ApiKey(url, destination)
      r   == HttpCacheGet(httpCache, global, vendor, writePerm, key, checksum)
  IN /\ httpCache # None
     /\ ops < MaxOps
     /\ ops' = ops + 1
     /\ vendor' = r.vendor
     /\ ret' = [Before("get", url, destination, checksum) EXCEPT !.res = r.res]
     /\ UNCHANGED <<apiRest, createOpts, creates, httpCache, global, lastSet>>

\* HttpCache.getHeaders(url, destination)
ApiGetHeaders(url, destination) ==
  LET key == ApiKey(url, destination) IN
  /\ httpCache # None
  /\ ops < MaxOps
  /\ ops' = ops + 1
  /\ ret' = [Before("getHeaders", url, destination, None) EXCEPT
               !.res = HttpCacheGetHeaders(httpCache, global, vendor, key)]
  /\ UNCHANGED <<apiRest, createOpts, creates, httpCache, global, vendor, lastSet>>

NextCache ==
  \/ \E opts \in CreateOptions : ApiCreate(opts)
  \/ \E u \in ApiUrls, d \in Destinations, h \in ApiHeaders, b \in Bodies :
       ApiSet(u, d, h, b)
  \/ \E u \in ApiUrls, d \in Destinations, c \in ApiChecksums : ApiGet(u, d, c)
  \/ \E u \in ApiUrls, d \in Destinations : ApiGetHeaders(u, d)

SpecCache == InitApi /\ [][NextCache]_vars

\* the instance writes: it is not read-only and the process may write
CacheWritable ==
  /\ httpCache # None
  /\ ResolveReadOnly(httpCache.readOnly, writePerm) = "false"
  /\ writePerm

\* every entry of the stores was set through the one instance of the run
OwnStores == seed = ApiEmpty /\ creates = 1

\* C12: on a writable cache whose entries all come from its own set calls,
\* get(U, D) returns the headers and the bytes of the latest set(U, D, H, B)
\* and getHeaders(U, D) returns H; for an entry never set both return absent.
C12_GetReturnsLatestSet ==
  (ret # None /\ CacheWritable /\ OwnStores) =>
    /\ (ret.op = "get" /\ ret.checksum = None) => ret.res = lastSet[ret.entry]
    /\ ret.op = "getHeaders" =>
         ret.res = IF lastSet[ret.entry] = None THEN None
                   ELSE lastSet[ret.entry].headers

\* a get after a set of either destination of the URL, with different bytes
C12_Witness ==
  /\ ret # None /\ CacheWritable /\ OwnStores
  /\ ret.op = "get" /\ ret.checksum = None
  /\ ret.res = Entry(Headers("", Etag(BodyStale)), BodyNew)
  /\ \A e \in ApiEntries : lastSet[e] # None
  /\ \E e \in ApiEntries : lastSet[e] # ret.res

\* a get of a vendor cache for an entry the vendor root does not hold while
\* the global store does
VendorMiss ==
  /\ ret # None /\ ret.op = "get" /\ ret.checksum = None
  /\ httpCache.local
  /\ ret.vendor[ret.key] = None
  /\ ret.global[ret.key] # None

\* C13: for a vendor cache whose vendor root does not hold U while the global
\* cache does: created with readOnly = true, get(U) returns absent and leaves
\* the vendor root unchanged; created writable, get(U) returns the bytes of
\* the global entry and afterwards the vendor root holds a copy of it.
C13_CopyGlobalToLocal ==
  VendorMiss =>
    /\ createOpts.readOnly = "true" => ret.res = None /\ vendor = ret.vendor
    /\ CacheWritable =>
         /\ ret.res # None /\ ret.res.kind = "entry"
         /\ ret.res.content = ret.global[ret.key].content
         /\ vendor[ret.key] = ret.global[ret.key]

\* the writable vendor cache created after a read-only one has missed
C13_Witness ==
  /\ VendorMiss /\ CacheWritable /\ creates = 2
  /\ createOpts.readOnly = "undefined"
  /\ vendor[ret.key] = ModuleEntry(BodyStale)

\* C14: Loader.load(specifier) returns absent whenever fetchOnce fails with
\* NotFound; for every other error of fetchOnce it fails with an error whose
\* cause is that error; a NotFound never escapes.
C14_LoadSwallowsNotFound ==
  \A p \in Tasks :
    (Done(p) /\ task[p].kind = "load") =>
      /\ task[p].onceOut = Err("NotFound") => task[p].out = Absent
      /\ (task[p].onceOut.kind = "error" /\ task[p].onceOut # Err("NotFound")) =>
           /\ task[p].out.kind = "error"
           /\ task[p].out.cause = task[p].onceOut
      /\ task[p].onceOut.kind # "error" => task[p].out = task[p].onceOut
      /\ task[p].out # Err("NotFound")

\* one load has swallowed a NotFound and another has wrapped a checksum error
C14_Witness ==
  \E p, q \in Tasks :
    /\ Done(p) /\ task[p].kind = "load"
    /\ task[p].onceOut = Err("NotFound") /\ task[p].out = Absent
    /\ Done(q) /\ task[q].kind = "load"
    /\ task[q].out.kind = "error" /\ task[q].out.cause = Err("ChecksumMismatch")

\* a fetch or fetchOnce of an http or https URL has returned on a Fetcher
\* constructed with allowRemote = false
NoRemote(p) ==
  /\ Done(p) /\ task[p].kind \in {"fetch", "once"}
  /\ ~allowRemote
  /\ IsRemote(task[p].orig)

\* C15: when allow_remote is false, a fetch of an http or https URL that is
\* not cached fails with PermissionDenied and issues no HTTP request.
C15_NoRemoteUncachedDenied ==
  \A p \in Tasks :
    (NoRemote(p) /\ NotCached(task[p].orig)) =>
      task[p].out = Err("PermissionDenied") /\ task[p].reqs = 0

C15_Witness ==
  \E p \in Tasks :
    /\ NoRemote(p) /\ NotCached(task[p].orig)
    /\ task[p].kind = "fetch" /\ task[p].calls = 1
    /\ task[p].out = Err("PermissionDenied")

\* C16, as claimed: when allowRemote is false, a fetch of an http or https
\* URL whose entry is already in the on-disk cache returns that cached Module.
C16_NoRemoteCachedReturned ==
  \A p \in Tasks :
    (NoRemote(p) /\ global[task[p].orig] = ModuleEntry(BodyNew)) =>
      task[p].out = Module(task[p].orig, global[task[p].orig].headers, BodyNew)

\* fetchWithRetries re-issues the request of the call
Retried(p) ==
  /\ task[p].pc = "awaitHttp" /\ task'[p].pc = "awaitHttp"
  /\ task'[p].iter = task[p].iter + 1

\* the attempt that ends in this step ends with a network error or a status
\* of 500 or more
TransientAnswer(p) ==
  \/ faults' = faults + 1
  \/ LET a == OriginAnswer(origin, task[p].url, task[p].inm) IN
       a.kind = "neterr" \/ a.status >= 500

\* C17, as claimed: fetch_with_retries re-issues the request only after a
\* network error or a response with status >= 500, and at most 3 times (4
\* attempts in all); a 2xx and every 4xx response is returned after the
\* attempt that produced it.
C17_RetryOnlyTransient ==
  /\ [][\A p \in Tasks : Retried(p) => TransientAnswer(p)]_vars
  /\ [](\A p \in Tasks : task[p].iter <= MaxRetries + 1)

\* the store the HttpCache of the Fetcher reads and writes
Store == IF createOpts.vendorRoot THEN vendor ELSE global

\* a fetchOnce of an http or https specifier has returned whose cache setting
\* is Reload or a list with a prefix of the specifier
Reloaded(p) ==
  /\ Done(p) /\ task[p].kind = "once"
  /\ IsRemote(task[p].url)
  /\ \/ SettingOf(p) = "reload"
     \/ \E i \in 1..Len(PrefixesOf(SettingOf(p))) :
          StartsWith(task[p].url, PrefixesOf(SettingOf(p))[i])

\* the response a reload has returned is the one of the origin, and the entry
\* of the cache is that response
Rewritten(p) ==
  task[p].out.kind = "module" =>
    /\ task[p].out.content = BodyNew
    /\ Store[task[p].out.specifier] = Entry(task[p].out.headers, BodyNew)

\* C18, as claimed: with cache_setting = Reload (or a list of prefixes that
\* matches the specifier), every fetch_once of an http or https specifier
\* bypasses the cached entry, issues an HTTP request, and rewrites the cache
\* entry with the new response (remote modules being allowed).
C18_ReloadAlwaysRefetches ==
  \A p \in Tasks :
    (Reloaded(p) /\ allowRemote) => task[p].reqs >= 1 /\ Rewritten(p)

\* C18, amended: with cache_setting = Reload (or a list of prefixes that
\* matches the specifier) and allow_remote true, every fetch_once of an http
\* or https specifier that the memo of the Fetcher does not hold bypasses the
\* cached entry and issues an HTTP request; when the response is 2xx and the
\* cache is writable it rewrites the cache entry with the new response.
C18_ReloadRefetchesPastMemo ==
  \A p \in Tasks :
    (Reloaded(p) /\ ~task[p].memoHit /\ allowRemote) =>
      /\ task[p].reqs >= 1
      /\ ~ReadOnlyMode => Rewritten(p)
      /\ task[p].out.kind = "module" => task[p].out.content = BodyNew

\* a list of prefixes has replaced the stale entry of the URL
C18_Witness ==
  \E p \in Tasks :
    /\ Reloaded(p) /\ ~task[p].memoHit /\ task[p].setting = ReloadA
    /\ task[p].reqs = 1 /\ task[p].out.kind = "module"
    /\ workload = ReloadWorkload
    /\ global[UrlA] = ModuleEntry(BodyNew)
    /\ global[UrlB] = ModuleEntry(BodyStale)

\* fetchWithRetries returns to #fetchRemoteOnce, which returns in this step
RemoteReturned(p) ==
  /\ task[p].pc = "awaitHttp" /\ IsRemote(task[p].url)
  /\ task'[p].pc \notin {"awaitHttp", "awaitBody"}

\* C19: a non-2xx response to the remote request yields absent when the
\* status is 404 and an HttpStatus error with the status for every other
\* status; nothing is written to the cache and nothing is added to the memo.
C19_NonOkResponse ==
  [][\A p \in Tasks :
       LET a == OriginAnswer(origin, task[p].url, task[p].inm) IN
       /\ (RemoteReturned(p) /\ faults' = faults /\ a.kind = "response" /\ ~Ok(a)) =>
            /\ task'[p].onceOut = IF a.status = 404 THEN Absent ELSE HttpError(a.status)
            /\ global' = global /\ vendor' = vendor /\ memo' = memo
       /\ (RemoteReturned(p) /\ faults' # faults) =>
            /\ task'[p].onceOut \in {HttpError(500), Err("NetworkError")}
            /\ global' = global /\ vendor' = vendor /\ memo' = memo]_vars

\* one fetchOnce has returned absent for a 404 and one has thrown for a 304
C19_Witness ==
  \E p, q \in Tasks :
    /\ Done(p) /\ task[p].onceOut = Absent /\ task[p].reqs = 1
    /\ IsRemote(task[p].url)
    /\ Done(q) /\ task[q].onceOut = HttpError(304) /\ task[q].reqs = MaxRetries + 1

(***************************************************************************)
(* AuthTokens (src/unnamed/part_000).  Host names are sequences of         *)
(* characters, so that endsWith is computed as the code computes it.       *)
(***************************************************************************)
MaxTokens == 2

Chars(str) ==
  CASE str = "b"     -> <<"b">>
    [] str = "ab"    -> <<"a", "b">>
    [] str = "a.b"   -> <<"a", ".", "b">>
    [] str = "a.b:8" -> <<"a", ".", "b", ":", "8">>
    [] str = "8"     -> <<"8">>
    [] OTHER         -> <<>>

Hostnames  == {Chars("b"), Chars("ab"), Chars("a.b")}
Ports      == {Chars(""), Chars("8")}
TokenHosts == Hostnames \cup {Chars("a.b:8")}

\* the URLs get is called with: URL.hostname, and URL.port ("" when it is the
\* default port of the scheme)
AuthUrls == [hostname : Hostnames, port : Ports]

\* URL.host: the hostname, followed by ":" and the port when there is one
Host(url) ==
  IF url.port = <<>> THEN url.hostname ELSE url.hostname \o <<":">> \o url.port

\* String.prototype.endsWith
EndsWith(str, suffix) ==
  /\ Len(suffix) <= Len(str)
  /\ SubSeq(str, Len(str) - Len(suffix) + 1, Len(str)) = suffix

AuthTokenSet ==
  [type : {"bearer"}, host : TokenHosts, token : {"t1"}]
    \cup [type : {"basic"}, host : TokenHosts, username : {"u"}, password : {"pw"}]

\* btoa
Btoa(str) == [kind |-> "base64", of |-> str]

\* tokenAsValue
TokenAsValue(authToken) ==
  IF authToken.type = "basic"
    THEN [scheme |-> "Basic", value |-> Btoa(<<authToken.username, ":", authToken.password>>)]
    ELSE [scheme |-> "Bearer", value |-> authToken.token]

\* AuthTokens.get: the value of the first token whose host ends with the host
\* of the URL
AuthTokensGet(tokens, specifier) ==
  LET hits == {i \in 1..Len(tokens) : EndsWith(tokens[i].host, Host(specifier))} IN
  IF hits = {} THEN None
  ELSE TokenAsValue(tokens[CHOOSE i \in hits : \A j \in hits : i <= j])

InitAuth ==
  /\ InitRun(Run(DefaultMode, TRUE, EmptyStore, OriginOf("ok", "ok"), {}))
  /\ StoreIdle

authRest == <<envVars, fetcherVars, callVars, workload, histVars,
              files, inodes, dirExists, writer, old, crashes,
              seed, creates, ops, lastSet, ret, pureVars>>

\* String.prototype.includes, for one character
Includes(str, c) == \E i \in 1..Len(str) : str[i] = c

\* String.prototype.split, for a delimiter of one character
RECURSIVE Split(_, _)
Split(str, delimiter) ==
  IF ~Includes(str, delimiter) THEN <<str>>
  ELSE LET i == CHOOSE k \in 1..Len(str) :
                  str[k] = delimiter /\ \A j \in 1..(k - 1) : str[j] # delimiter
       IN <<SubSeq(str, 1, i - 1)>> \o Split(SubSeq(str, i + 1, Len(str)), delimiter)

\* Array.prototype.join
RECURSIVE Join(_, _)
Join(parts, delimiter) ==
  IF parts = <<>> THEN <<>>
  ELSE IF Len(parts) = 1 THEN parts[1]
  ELSE parts[1] \o <<delimiter>> \o Join(Tail(parts), delimiter)

\* splitLast: what precedes the last delimiter, and what follows it
SplitLast(value, delimiter) ==
  LET split == Split(value, delimiter) IN
  <<Join(SubSeq(split, 1, Len(split) - 1), delimiter), split[Len(split)]>>

\* the non-empty entries of the token string
TokenStrs(tokensStr) == SelectSeq(Split(tokensStr, ";"), LAMBDA e : Len(e) > 0)

\* the body of the loop of the constructor: the tokens one entry adds
TokensOf(tokensStr, tokenStr) ==
  IF Includes(tokensStr, "@")
    THEN LET th == SplitLast(tokenStr, "@") IN
         IF Includes(th[1], ":")
           THEN LET up == SplitLast(th[1], ":") IN
                <<[type |-> "basic", host |-> th[2], username |-> up[1], password |-> up[2]]>>
           ELSE <<[type |-> "bearer", host |-> th[2], token |-> th[1]]>>
    ELSE <<>>

\* the constructor of AuthTokens: the tokens of a token string
RECURSIVE ParseEntries(_, _)
ParseEntries(tokensStr, entries) ==
  IF entries = <<>> THEN <<>>
  ELSE TokensOf(tokensStr, entries[1]) \o ParseEntries(tokensStr, Tail(entries))

ParseTokens(tokensStr) == ParseEntries(tokensStr, TokenStrs(tokensStr))

\* the token strings of the model
AuthStrings ==
  {<<>>, <<";">>, <<"b">>, <<"t", "@", "b">>, <<"u", ":", "p", "@", "b">>,
   <<"b", ";", "t", "@", "b">>, <<"t", "@", "b", ";", "a", "b">>,
   <<"t", "@", "a", "b", ";", ";", "u", ":", "p", "@", "b">>,
   <<"a", "b", ";", "b">>}

\* new AuthTokens(tokensStr)
AuthParse(tokensStr) ==
  /\ authStr' = [kind |-> "string", chars |-> tokensStr]
  /\ authTokens' = ParseTokens(tokensStr)
  /\ authRet' = None
  /\ UNCHANGED authRest

\* new AuthTokens(tokensStr), as the tokens the string holds
AuthNew(tokens) ==
  /\ authStr' = None
  /\ authTokens' = tokens
  /\ authRet' = None
  /\ UNCHANGED authRest

\* AuthTokens.get(specifier)
AuthGet(specifier) ==
  /\ authRet' = [kind |-> "get", url |-> specifier,
                 value |-> AuthTokensGet(authTokens, specifier)]
  /\ UNCHANGED <<authRest, authStr, authTokens>>

TokenLists == UNION {[1..n -> AuthTokenSet] : n \in 0..MaxTokens}

NextAuth ==
  \/ \E tokens \in TokenLists : AuthNew(tokens)
  \/ \E str \in AuthStrings : AuthParse(str)
  \/ \E u \in AuthUrls : AuthGet(u)

SpecAuth == InitAuth /\ [][NextAuth]_vars

\* the host of the token is a suffix of the hostname of the URL
HostIsSuffix(token, url) == EndsWith(url.hostname, token.host)

\* C20, as claimed: AuthTokens.get(url) returns the header value of a
\* configured token exactly when the host of that token is a suffix of the
\* hostname of the URL, whatever the port of the URL; when the host of no
\* token is such a suffix it returns nothing.
C20_TokenHostIsSuffix ==
  authRet # None =>
    /\ authRet.value # None =>
         \E i \in 1..Len(authTokens) :
           /\ HostIsSuffix(authTokens[i], authRet.url)
           /\ authRet.value = TokenAsValue(authTokens[i])
    /\ authRet.value = None =>
         \A i \in 1..Len(authTokens) : ~HostIsSuffix(authTokens[i], authRet.url)

(***************************************************************************)
(* The functions of the library that keep no state, called on their own    *)
(***************************************************************************)
\* the bytes of a file in the model: '#', '!', a line feed, 'a'
FileBytes == {35, 33, 10, 97}
MaxLen == 6
FileContents == UNION {[1..n -> FileBytes] : n \in 0..MaxLen}

\* new TextDecoder().decode, on these bytes
DecodeByte(b) ==
  CASE b = 35 -> "#" [] b = 33 -> "!" [] b = 10 -> "\n" [] OTHER -> "a"
Decode(value) == [i \in 1..Len(value) |-> DecodeByte(value[i])]

\* new TextEncoder().encode, on the characters of these bytes
EncodeChar(c) ==
  CASE c = "#" -> 35 [] c = "!" -> 33 [] c = "\n" -> 10 [] OTHER -> 97
Encode(text) == [i \in 1..Len(text) |-> EncodeChar(text[i])]

\* String.prototype.indexOf, for one character: from 0, -1 when not there
IndexOf(text, c) ==
  IF ~Includes(text, c) THEN -1
  ELSE (CHOOSE k \in 1..Len(text) :
          text[k] = c /\ \A j \in 1..(k - 1) : text[j] # c) - 1

\* String.prototype.slice(start), start >= 0
Slice(text, start) == SubSeq(text, start + 1, Len(text))

\* hasHashbang that looks at the first byte only
HasHashbangFirstByte(value) == Len(value) >= 1 /\ value[1] = 35

\* hasHashbang
HasHashbang(value) == Len(value) >= 2 /\ value[1] = 35 /\ value[2] = 33

\* stripHashbang: the text after the first line feed, or the value itself
StripHashbang(value) ==
  IF HasHashbang(value)
    THEN LET text      == Decode(value)
             lineIndex == IndexOf(text, "\n")
         IN IF lineIndex > 0
              THEN [type |-> "string", text |-> Slice(text, lineIndex + 1)]
              ELSE [type |-> "Uint8Array", text |-> Decode(value)]
    ELSE [type |-> "Uint8Array", text |-> Decode(value)]

pureRest == <<envVars, fetcherVars, callVars, workload, histVars,
              files, inodes, dirExists, writer, old, crashes,
              seed, creates, ops, lastSet, ret, authVars>>

\* stripHashbang(value), as fetchLocal calls it on the bytes of a file
StripCall(value) ==
  /\ arg = None
  /\ arg' = [fn |-> "stripHashbang", value |-> value]
  /\ result' = StripHashbang(value)
  /\ UNCHANGED pureRest

\* the URLs handed to the filename functions, as the fields of a parsed URL;
\* pathname is the list of its segments, search and hash keep their '?', '#'
Url(protocol, hostname, port, pathname, search, hash) ==
  [protocol |-> protocol, hostname |-> hostname, port |-> port,
   pathname |-> pathname, search |-> search, hash |-> hash]

Pathnames == {<<"std", "mod.ts">>, <<"d1c677ea">>, <<"d$", "a", "format.ts">>,
              <<"D:", "a", "format.ts">>, <<>>}

PureUrls ==
  {Url(p, h, o, n, q, f) :
     p \in {"http:", "https:", "wasm:"}, h \in {"deno.land", "wasm"},
     o \in {"", "8000"}, n \in Pathnames, q \in {"", "?dts"}, f \in {"", "#a", "#b"}}
  \cup {Url(p, "", "", n, q, f) :
          p \in {"data:", "blob:", "ftp:"},
          n \in Pathnames, q \in {"", "?dts"}, f \in {"", "#a"}}
  \cup {Url("file:", h, "", n, "", f) :
          h \in {"", "127.0.0.1", "[::1]"}, n \in Pathnames, f \in {"", "#a"}}

\* the wasm:// URL and the UNC file URL of the test of getCacheFilename
UrlWasm == Url("wasm:", "wasm", "", <<"d1c677ea">>, "", "")
UrlUnc  == Url("file:", "127.0.0.1", "", <<"d$", "a", "format.ts">>, "", "")

\* url.host
UrlHost(url) == IF url.port = "" THEN url.hostname ELSE url.hostname \o ":" \o url.port

\* join of std/path: the components that are not empty, in order
PathJoin(out) == SelectSeq(out, LAMBDA c : c # "")

\* hash: the hex SHA-256 of a string, injective on the strings of the model
Hash(value) == [kind |-> "sha256", of |-> value]

\* url.protocol.replace(":", "")
SchemeName(protocol) ==
  CASE protocol = "http:" -> "http" [] protocol = "https:" -> "https"
    [] protocol = "data:" -> "data" [] protocol = "blob:" -> "blob"
    [] protocol = "file:" -> "file" [] protocol = "wasm:" -> "wasm"
    [] OTHER -> "ftp"

\* baseUrlToFilename
BaseUrlToFilename(url) ==
  LET scheme == SchemeName(url.protocol) IN
  CASE scheme \in {"http", "https"} ->
         [kind |-> "filename",
          path |-> PathJoin(<<scheme,
                              IF url.port # "" THEN url.hostname \o "_PORT" \o url.port
                                               ELSE url.hostname>>)]
    [] scheme \in {"data", "blob"} -> [kind |-> "filename", path |-> PathJoin(<<scheme>>)]
    [] OTHER -> Err("TypeError")

\* url.pathname
PathnameOf(url) == <<"/", url.pathname>>

\* the string urlToFilename hashes, with the fragment of the URL added to it
RestStrWithHash(url) ==
  IF url.search # "" THEN <<PathnameOf(url), "?" \o url.search, url.hash>>
                     ELSE <<PathnameOf(url), "", url.hash>>

\* the string urlToFilename hashes: the pathname, and the search after a '?'
RestStr(url) ==
  IF url.search # "" THEN <<PathnameOf(url), "?" \o url.search>>
                     ELSE <<PathnameOf(url), "">>

\* urlToFilename
UrlToFilename(url) ==
  LET cacheFilename == BaseUrlToFilename(url) IN
  IF cacheFilename.kind = "error" THEN cacheFilename
  ELSE [kind |-> "filename", path |-> cacheFilename.path \o <<Hash(RestStr(url))>>]

\* host.replaceAll(":", "_"), on the hosts of the model
ReplaceColons(host) == IF host = "[::1]" THEN "[__1]" ELSE host

\* first.replace(/:$/, ""), on the path components of the model
StripColon(component) == IF component = "D:" THEN "D" ELSE component

\* fromFileUrl(url).split(sep).filter((p) => p.length > 0): on Windows the
\* path of a URL with a host starts with the host
FileComponents(url, os) ==
  IF os = "windows" /\ url.hostname # "" THEN <<url.hostname>> \o url.pathname
  ELSE url.pathname

\* DiskCache.getCacheFilename
GetCacheFilename(url, os) ==
  LET scheme == SchemeName(url.protocol) IN
  CASE scheme = "wasm" ->
         [kind |-> "filename",
          path |-> PathJoin(<<scheme,
                              IF url.port # "" THEN url.hostname \o "_PORT" \o url.port
                                               ELSE url.hostname>>
                            \o <<"">> \o url.pathname)]
    [] scheme \in {"http", "https", "data", "blob"} -> UrlToFilename(url)
    [] scheme = "file" ->
         LET unc   == IF UrlHost(url) # ""
                        THEN <<"UNC", ReplaceColons(UrlHost(url))>> ELSE <<>>
             comps == FileComponents(url, os)
             rest  == IF os = "windows" /\ UrlHost(url) # "" THEN Tail(comps) ELSE comps
         IN IF os # "windows"
              THEN [kind |-> "filename", path |-> PathJoin(<<scheme>> \o unc \o rest)]
            ELSE IF rest = <<>> THEN Err("AssertionError")
            ELSE [kind |-> "filename",
                  path |-> PathJoin(<<scheme>> \o unc \o <<StripColon(Head(rest))>>
                                    \o Tail(rest))]
    [] OTHER -> [kind |-> "undefined"]

\* DiskCache.getCacheFilename(url), on a build for the operating system os
GetCacheFilenameCall(url, os) ==
  /\ arg = None
  /\ arg' = [fn |-> "getCacheFilename", url |-> url, os |-> os]
  /\ result' = GetCacheFilename(url, os)
  /\ UNCHANGED pureRest

\* urlToFilename(url)
UrlToFilenameCall(url) ==
  /\ arg = None
  /\ arg' = [fn |-> "urlToFilename", url |-> url]
  /\ result' = UrlToFilename(url)
  /\ UNCHANGED pureRest

\* shouldUseCache(cacheSetting, specifier)
ShouldUseCacheCall(setting, specifier) ==
  /\ arg = None
  /\ arg' = [fn |-> "shouldUseCache", setting |-> setting, specifier |-> specifier]
  /\ result' = [kind |-> "boolean", value |-> ShouldUseCache(setting, specifier)]
  /\ UNCHANGED pureRest

PrefixLists  == {ReloadNone, ReloadA, ReloadScheme, ReloadTwo}
PureSettings == {"only", "use", "reload", "reloadAll"} \cup PrefixLists

InitPure == InitAuth

NextPure ==
  \/ \E value \in FileContents : StripCall(value)
  \/ \E url \in PureUrls, os \in {"linux", "windows"} : GetCacheFilenameCall(url, os)
  \/ \E url \in PureUrls : UrlToFilenameCall(url)
  \/ \E setting \in PureSettings, u \in RemoteUrls \cup DataUrls \cup {UrlAx} :
       ShouldUseCacheCall(setting, u)

SpecPure == InitPure /\ [][NextPure]_vars

\* C23, as claimed: strip_hashbang is idempotent: strip_hashbang applied to
\* the content strip_hashbang returned returns that content again.
C23_StripIdempotent ==
  (arg # None /\ arg.fn = "stripHashbang") =>
    StripHashbang(Encode(result.text)).text = result.text

\* the content begins with a complete hashbang line: '#', '!', ..., line feed
HashbangLine(text) ==
  /\ Len(text) >= 2 /\ text[1] = "#" /\ text[2] = "!"
  /\ \E i \in 3..Len(text) : text[i] = "\n"

\* C23, amended: strip_hashbang removes one line: applied to the content it
\* returned it returns that content again, unless that content begins with a
\* complete hashbang line of its own, which the second application removes.
C23_StripOneLine ==
  (arg # None /\ arg.fn = "stripHashbang") =>
    LET again == StripHashbang(Encode(result.text)).text IN
    /\ ~HashbangLine(result.text) => again = result.text
    /\ HashbangLine(result.text) => Len(again) < Len(result.text)
    /\ HashbangLine(Decode(arg.value)) => Len(result.text) < Len(arg.value)

\* a hashbang line was stripped and the rest has no hashbang line
C23_Witness ==
  /\ arg # None /\ arg.fn = "stripHashbang"
  /\ HashbangLine(Decode(arg.value))
  /\ result.type = "string" /\ Len(result.text) > 0
  /\ ~HashbangLine(result.text)

\* C24, as claimed: encoding wasm://wasm/d1c677ea or the UNC file URL
\* file://127.0.0.1/d$/a/format.ts to a cache filename fails with an error
\* and returns no path.
C24_UnsupportedUrlFails ==
  (arg # None /\ arg.fn = "getCacheFilename" /\ arg.url \in {UrlWasm, UrlUnc})
    => result.kind = "error"

\* C26: the cache path is a function of the URL without its fragment: an http
\* or https URL and every URL that differs from it only in the fragment encode
\* to the same relative path.
C26_FragmentIgnored ==
  (arg # None /\ arg.fn = "urlToFilename" /\ arg.url.protocol \in {"http:", "https:"})
    => /\ result.kind = "filename"
       /\ \A f \in {"", "#a", "#b"} :
            UrlToFilename([arg.url EXCEPT !.hash = f]) = result

\* an https URL with a query and a fragment was encoded
C26_Witness ==
  /\ arg # None /\ arg.fn = "urlToFilename"
  /\ arg.url.protocol = "https:" /\ arg.url.hash = "#a" /\ arg.url.search # ""
  /\ result.kind = "filename"

\* the characters of the strings shouldUseCache is called with
CharsOf(str) ==
  CASE str = "https://" -> <<"h", "t", "t", "p", "s", ":", "/", "/">>
    [] str = UrlA  -> <<"h", "t", "t", "p", "s", ":", "/", "/", "a", "/">>
    [] str = UrlAx -> <<"h", "t", "t", "p", "s", ":", "/", "/", "a", "/", "x", ".", "t", "s">>
    [] str = UrlB  -> <<"h", "t", "t", "p", "s", ":", "/", "/", "b", "/">>
    [] OTHER       -> <<"d", "a", "t", "a", ":", ",", "d">>

\* the URL string starts with at least one prefix of the list
SomePrefix(list, str) ==
  \E i \in 1..Len(list) :
    /\ Len(CharsOf(list[i])) <= Len(CharsOf(str))
    /\ \A k \in 1..Len(CharsOf(list[i])) : CharsOf(str)[k] = CharsOf(list[i])[k]

\* C25: should_use_cache is true for Only and Use, false for Reload, and for
\* a list of prefixes false exactly when the URL string starts with at least
\* one prefix of the list, so true for the empty list.
C25_ShouldUseCache ==
  (arg # None /\ arg.fn = "shouldUseCache") =>
    /\ arg.setting \in {"only", "use"} => result.value
    /\ arg.setting = "reload" => ~result.value
    /\ arg.setting \in PrefixLists =>
         (result.value <=> ~SomePrefix(PrefixesOf(arg.setting), arg.specifier))
    /\ arg.setting = ReloadNone => result.value

\* a list whose prefix is a proper prefix of the URL, and the answer was false
C25_Witness ==
  /\ arg # None /\ arg.fn = "shouldUseCache"
  /\ arg.setting = ReloadScheme /\ arg.specifier = UrlA
  /\ ~result.value

\* C27, as claimed: on a cache probe the redirect check comes before the
\* content: a fetchOnce with a checksum, of a URL whose cached record has a
\* location header, returns the Redirect to that location, the checksum not
\* being verified against the empty body of the record.
C27_RedirectBeforeChecksum ==
  \A p \in Tasks :
    (/\ Done(p) /\ task[p].kind = "once" /\ task[p].checksum # None
     /\ allowRemote /\ SettingOf(p) \in {"use", "only"}
     /\ global[task[p].orig] = RedirectEntry(UrlB) /\ vendor[task[p].orig] = None)
      => task[p].out = Redirect(UrlB)

\* a fetchOnce of an http or https URL has returned the Module of an HTTP
\* response whose URL is not the requested one
RedirectedModule(p) ==
  /\ Done(p) /\ task[p].kind = "once" /\ IsRemote(task[p].url)
  /\ task[p].reqs > 0 /\ ~task[p].memoHit
  /\ task[p].out.kind = "module" /\ task[p].out.specifier # task[p].url

\* the cache holds the redirect record at the requested URL and the entry of
\* the response at the final URL
HoldsBoth(p) ==
  /\ Store[task[p].url] = RedirectEntry(task[p].out.specifier)
  /\ Store[task[p].out.specifier] = Entry(task[p].out.headers, task[p].out.content)

\* C28, as claimed: after a fetchOnce that returned the Module of a response
\* whose URL differs from the requested URL U, the cache holds the redirect
\* record at U and the entry at the final URL.
C28_HoldsRecordAndEntry ==
  \A p \in Tasks : RedirectedModule(p) => HoldsBoth(p)

\* C28, amended: the same, on a cache that is not read-only.
C28_WritableHoldsRecordAndEntry ==
  \A p \in Tasks : (RedirectedModule(p) /\ ~task[p].skipped) => HoldsBoth(p)

\* a fetchOnce of UrlA got the response of UrlB, wrote both and returned
C28_Witness ==
  \E p \in Tasks :
    /\ RedirectedModule(p) /\ ~task[p].skipped
    /\ task[p].url = UrlA /\ task[p].out.specifier = UrlB
    /\ HoldsBoth(p)

\* a fetch or fetchOnce that asked for the specifier, or is at it, is in flight
InFlight(u) ==
  \E p \in Tasks :
    task[p].pc \notin {"idle", "done"} /\ (task[p].url = u \/ task[p].orig = u)

\* the cache writes: it is not read-only and the process may write
WritableMode == ~ReadOnlyMode /\ writePerm

\* the Module memoized for the specifier is the entry of the store at the URL
\* of that Module
MemoIsStored(u) ==
  (memo[u] # None /\ memo[u].kind = "module") =>
    Store[memo[u].specifier] = Entry(memo[u].headers, memo[u].content)

OwnWrites(u) ==
  \A o \in workload :
    /\ (o.url # u /\ o.url \in RemoteUrls) => FinalUrl(origin, o.url) # u
    /\ o.url = u => o.checksum \in {None, Sha256(BodyNew)}

RecordCycle ==
  Store[UrlA] = RedirectEntry(UrlB) /\ Store[UrlB] = RedirectEntry(UrlA)

\* a fetch that read its responses from the cache has ended over the cycle
CycleFetched(p) ==
  /\ Done(p) /\ task[p].kind = "fetch" /\ task[p].orig \in RemoteUrls
  /\ allowRemote /\ SettingOf(p) \in {"use", "only"}
  /\ RecordCycle

\* C30: every fetch and fetchOnce that is called returns or throws, each HTTP
\* attempt ending with an answer or an error: within 11 fetchOnce calls of at
\* most 4 HTTP attempts each; over a cycle of redirect records of the cache a
\* fetch ends with TooManyRedirects.
C30_FetchTerminates ==
  /\ \A p \in Tasks : (task[p].pc \notin {"idle", "done"}) ~> Done(p)
  /\ [](\A p \in Tasks :
         /\ task[p].calls <= MaxRedirects + 1
         /\ task[p].iter <= MaxRetries + 1
         /\ CycleFetched(p) => task[p].out = Err("TooManyRedirects"))

\* a fetch over the cycle of redirect records has ended after 11 fetchOnce
C30_Witness ==
  \E p \in Tasks :
    /\ CycleFetched(p) /\ task[p].calls = MaxRedirects + 1
    /\ task[p].out = Err("TooManyRedirects")

\* in this step a fetchOnce of U returns the Module of an HTTP response whose
\* URL is not U
ReturnsRedirected(p) ==
  /\ task[p].pc \in {"awaitBody", "awaitDigest"} /\ IsRemote(task[p].url)
  /\ task'[p].pc = "done" /\ task'[p].out.kind = "module"
  /\ task'[p].out.specifier # task[p].url

\* C31: the memo is keyed by the specifier that was requested: the fetchOnce
\* of U that is answered through a redirect to V puts its Module under U and
\* leaves the entry of every other specifier, that of V too, as it was, so
\* that a first fetchOnce(V) does not find it in the memo.
C31_MemoKeyedByRequest ==
  [][\A p \in Tasks :
       ReturnsRedirected(p) =>
         memo' = [memo EXCEPT ![task[p].url] = task'[p].out]]_vars

\* a fetchOnce of UrlA has returned the Module of UrlB: the memo holds it
\* under UrlA and nothing under UrlB
C31_Witness ==
  \E p \in Tasks :
    /\ RedirectedModule(p) /\ task[p].url = UrlA /\ task[p].out.specifier = UrlB
    /\ memo[UrlA] = task[p].out /\ memo[UrlB] = None

\* the response a fetchOnce is computing the digest of is in the cache: its
\* entry at the URL of the response and, when that is not the requested URL,
\* the redirect record at the requested URL
ResponseWritten(p) ==
  /\ Store[task[p].res.url] = Entry(Headers("", task[p].res.etag), task[p].res.body)
  /\ task[p].res.url # task[p].url => Store[task[p].url] = RedirectEntry(task[p].res.url)

\* in this step the fetchOnce fails the checksum of the body it downloaded
FailsChecksum(p) ==
  task[p].pc = "awaitDigest" /\ task'[p].out = Err("ChecksumMismatch")

\* C32, as claimed: a downloaded body that fails the checksum is in the cache,
\* with the redirect record of a redirected request, when fetchOnce fails
\* with ChecksumMismatch, and the memo is not updated.
C32_MismatchAfterWrite ==
  /\ [](\A p \in Tasks : task[p].pc = "awaitDigest" => ResponseWritten(p))
  /\ [][\A p \in Tasks : FailsChecksum(p) =>
           memo' = memo /\ global' = global /\ vendor' = vendor]_vars

\* C32, amended: the same, on a cache that is not read-only.
C32_WritableMismatchAfterWrite ==
  /\ [](\A p \in Tasks :
         (task[p].pc = "awaitDigest" /\ ~task[p].skipped) => ResponseWritten(p))
  /\ [][\A p \in Tasks : FailsChecksum(p) =>
           memo' = memo /\ global' = global /\ vendor' = vendor]_vars

\* a redirected fetchOnce has failed its checksum: the record and the body
\* are in the cache and the memo holds nothing for the specifier
C32_Witness ==
  \E p \in Tasks :
    /\ Done(p) /\ task[p].out = Err("ChecksumMismatch") /\ ~task[p].skipped
    /\ task[p].reqs > 0 /\ task[p].url = UrlA
    /\ Store[UrlA] = RedirectEntry(UrlB) /\ Store[UrlB] = ModuleEntry(BodyNew)
    /\ memo[UrlA] = None

\* C22: get(url, dest, checksum) of the global cache returns the entry when
\* the checksum is the hex SHA-256 of the stored content in either case of the
\* hex digits, fails with ChecksumMismatch for every other checksum, and
\* verifies nothing without a checksum.
C22_GlobalGetChecksum ==
  (ret # None /\ ret.op = "get" /\ ~httpCache.local) =>
    LET e == ret.global[ret.key] IN
    /\ e = None => ret.res = None
    /\ (e # None /\ ret.checksum = None) => ret.res = e
    /\ (e # None /\ ret.checksum \in {Sha256(e.content), Sha256Upper(e.content)})
         => ret.res = e
    /\ (e # None /\ ret.checksum \notin {None, Sha256(e.content), Sha256Upper(e.content)})
         => ret.res = Err("ChecksumMismatch")

\* a get of the global cache with the digest of the stored content written in
\* upper case returned the entry
C22_Witness ==
  /\ ret # None /\ ret.op = "get" /\ ~httpCache.local
  /\ ret.global[ret.key] # None
  /\ ret.checksum = Sha256Upper(ret.global[ret.key].content)
  /\ ret.res = ret.global[ret.key]

\* C21, as claimed: when the token string is parsed, every entry between
\* ';' that contains no '@' is discarded: the tokens are those of the entries
\* that contain an '@', whatever the other entries of the string are.
C21_EntryWithoutAtDiscarded ==
  authStr # None =>
    LET entries == TokenStrs(authStr.chars)
        kept    == SelectSeq(entries, LAMBDA e : Includes(e, "@"))
    IN /\ Len(authTokens) = Len(kept)
       /\ \A i \in 1..Len(authTokens) :
            authTokens[i].host = SplitLast(kept[i], "@")[2]

\* C33, as claimed: a fetchOnce of a data: or blob: URL that misses the cache
\* issues one GET and never a second one; when it has issued it, it returns
\* the body as a Module under the full URL, which is then the memo entry and,
\* on a cache that writes, the cache entry of that URL.
C33_DataUrlSingleGet ==
  \A p \in Tasks :
    (task[p].kind = "once" /\ Protocol(task[p].url) \in {"data:", "blob:"}) =>
      /\ task[p].reqs <= 1
      /\ (Done(p) /\ task[p].reqs = 1) =>
           /\ task[p].out = Module(task[p].url, Headers("", ""), BodyNew)
           /\ memo[task[p].url] = task[p].out
           /\ ~task[p].skipped => Store[task[p].url] = Entry(Headers("", ""), BodyNew)

\* C34: every step of a fetch of a file: URL leaves the memo, both stores,
\* the HttpCache and the count of factory invocations as they were, and the
\* fetch ends with the bytes of the file as a Module or with absent.
C34_FileReadThrough ==
  [][\A p \in Tasks :
       (task'[p] # task[p] /\ Protocol(task'[p].url) = "file:") =>
         /\ memo' = memo /\ global' = global /\ vendor' = vendor
         /\ httpCache' = httpCache /\ httpCachePromise' = httpCachePromise
         /\ factoryCalls' = factoryCalls
         /\ task'[p].pc \in {"awaitFile", "done"}
         /\ task'[p].pc = "done" =>
              task'[p].out \in {Module(task'[p].url, None, BodyNew), Absent}]_vars

\* a Fetcher whose two fetches of a file: URL ended with the Module and with
\* absent has never invoked the factory and has an empty memo
C34_Witness ==
  \E p, q \in Tasks :
    /\ Done(p) /\ task[p].url = UrlF /\ task[p].out = Module(UrlF, None, BodyNew)
    /\ Done(q) /\ task[q].url = UrlF /\ task[q].out = Absent
    /\ factoryCalls = 0 /\ httpCache = None
    /\ \A u \in Specifiers : memo[u] = None

\* the step of writer w in which Deno.renameSync throws
RenameThrows(w) ==
  /\ writer[w].pc = "rename" /\ writer'[w].pc \notin {"rename", "dead"}
  /\ files'[PathOf(writer[w])] = files[PathOf(writer[w])]

\* the step of writer w that ends the catch of the rename
CatchEnds(w) == writer[w].pc = "remove" /\ writer'[w].pc \notin {"remove", "dead"}

\* C35: when the rename of the temporary file onto the target throws,
\* atomic_write_file removes the temporary file if it can and changes no other
\* file, throws the error, so that set ends without writing anything more,
\* and the target path names the bytes it named before.
C35_RenameFailureKeepsTarget ==
  [][\A w \in Writers :
       /\ RenameThrows(w) =>
            writer'[w].pc = "remove" /\ files' = files /\ inodes' = inodes
       /\ CatchEnds(w) =>
            /\ writer'[w].pc = "failed"
            /\ inodes' = inodes
            /\ files'[writer[w].temp] \in {0, files[writer[w].temp]}
            /\ \A path \in Paths \ {writer[w].temp} : files'[path] = files[path]]_vars

\* over an entry of an earlier run, the set of a writer has ended in the
\* error of the rename of the content: its temporary file was written and is
\* removed, and the entry is the old one
C35_Witness ==
  \E w \in Writers :
    /\ old = Pair(0) /\ writer[w].pc = "failed" /\ writer[w].phase = "content"
    /\ \A v \in Writers \ {w} : writer[v].pc = "idle"
    /\ writer[w].fd # 0 /\ inodes[writer[w].fd] = BodyOf(writer[w].k)
    /\ files[writer[w].temp] = 0
    /\ StoreGet(files, inodes) = old

\* the request of p carries the etag of the entry the cache holds for its URL
Conditional(p) ==
  /\ task[p].pc = "awaitHttp" /\ IsRemote(task[p].url)
  /\ Store[task[p].url] # None
  /\ task[p].inm # "" /\ task[p].inm = Store[task[p].url].headers.etag

\* C36: when the conditional request of a fetchOnce is answered with 304 and
\* fetchWithRetries returns that response, fetchOnce throws the Http error
\* of status 304 and does not return the Module of the cache; the entry, the
\* stores and the memo are as they were.
C36_NotModifiedFails ==
  [][\A p \in Tasks :
       LET a == OriginAnswer(origin, task[p].url, task[p].inm) IN
       (/\ Conditional(p) /\ RemoteReturned(p) /\ faults' = faults
        /\ a.kind = "response" /\ a.status = 304) =>
         /\ task'[p].onceOut = HttpError(304)
         /\ global' = global /\ vendor' = vendor /\ memo' = memo]_vars

\* a fetchOnce that reloads a URL whose entry the origin still serves has
\* thrown for the 304; the entry is in the cache and the memo has nothing
C36_Witness ==
  \E p \in Tasks :
    /\ Done(p) /\ task[p].kind = "once" /\ task[p].setting = "reload"
    /\ task[p].url = UrlA /\ task[p].inm = Etag(BodyNew)
    /\ task[p].out = HttpError(304)
    /\ global[UrlA] = ModuleEntry(BodyNew)
    /\ memo[UrlA] = None

\* C37, as claimed: when the Fetcher has digested a body it downloaded and
\* wrote to the global cache, its verdict on the checksum is the verdict of
\* fetchCachedOnce on the entry it has just written, for the same checksum:
\* both accept or both fail with ChecksumMismatch.
C37_SameVerdictOnBothPaths ==
  [][\A p \in Tasks :
       (/\ task[p].pc = "awaitDigest" /\ task'[p].pc = "done"
        /\ ~httpCache.local /\ ~task[p].skipped) =>
         LET cached == FetchCachedOnce([St(p) EXCEPT !.t.url = task[p].res.url]).resp IN
         /\ cached # None
         /\ (task'[p].onceOut = Err("ChecksumMismatch"))
              <=> (cached = Err("ChecksumMismatch"))]_vars

\* the promise of the factory is rejected and the Fetcher is not replaced
FactoryHasFailed == httpCachePromise = "rejected" /\ factoryCalls' # 0

\* a call of p for a specifier of the HTTP cache ends in this step
EndsViaCache(p) ==
  task'[p] # task[p] /\ task'[p].pc = "done" /\ ViaCache(task'[p].url)

EndsWithoutResponse(p) ==
  /\ task'[p] # task[p] /\ task'[p].pc # "idle"
  /\ task'[p].onceOut # None /\ task'[p].onceOut.kind \in {"error", "absent"}

\* C39: the step in which a fetchOnce ends with an error or with absent
\* leaves the memo as it was.
C39_FailureLeavesMemo ==
  [][\A p \in Tasks : EndsWithoutResponse(p) => memo' = memo]_vars

\* a fetchOnce of a URL has failed with NotFound, and a fetchOnce of the same
\* URL has then run the pipeline: it was not answered by the memo, went to
\* the network and returned the Module
C39_Witness ==
  \E p, q \in Tasks :
    /\ Done(p) /\ task[p].kind = "once" /\ task[p].url = UrlA
    /\ task[p].out = Err("NotFound")
    /\ Done(q) /\ task[q].kind = "once" /\ task[q].url = UrlA
    /\ ~task[q].memoHit /\ task[q].reqs = 1 /\ task[q].out.kind = "module"
    /\ memo[UrlA] = task[q].out

(***************************************************************************)
(* DiskCache (src/disk_cache.ts), the cache of the gen directory: set and  *)
(* get called one after the other on files of the directory.  A file is a  *)
(* sequence of bytes.                                                      *)
(***************************************************************************)
MaxData == 2

DiskFilenames == {"gen/a.js", "gen/a.js.map"}
DiskBytes     == {1, 2}
DiskDatas     == UNION {[1..n -> DiskBytes] : n \in 0..MaxData}

Bytes(b) == [kind |-> "bytes", bytes |-> b]

\* writeAll(file, data) on a file opened at position 0 without truncate: the
\* bytes of the file past the data stay
WriteAll(content, data) == data \o SubSeq(content, Len(data) + 1, Len(content))

diskRest == <<envVars, fetcherVars, callVars, workload, histVars,
              writer, old, crashes, seed, creates, ret, authVars>>

\* DiskCache.set(filename, data): ensureDir, Deno.open with write and create,
\* writeAll, close
DiskSet(filename, data) ==
  /\ ops < MaxOps
  /\ ops' = ops + 1
  /\ dirExists' = TRUE
  /\ IF files[filename] = 0
       THEN /\ inodes' = Append(inodes, data)
            /\ files' = [files EXCEPT ![filename] = Len(inodes) + 1]
       ELSE /\ inodes' = [inodes EXCEPT ![files[filename]] = WriteAll(@, data)]
            /\ files' = files
  /\ lastSet' = [lastSet EXCEPT ![filename] = Bytes(data)]
  /\ arg' = [fn |-> "set", filename |-> filename, data |-> data]
  /\ result' = None
  /\ UNCHANGED diskRest

\* DiskCache.get(filename): Deno.open with read, readAll, close
DiskGet(filename) ==
  /\ ops < MaxOps
  /\ ops' = ops + 1
  /\ arg' = [fn |-> "get", filename |-> filename]
  /\ result' = IF files[filename] = 0 THEN Err("NotFound")
               ELSE Bytes(inodes[files[filename]])
  /\ UNCHANGED <<files, inodes, dirExists, lastSet, diskRest>>

InitDisk ==
  /\ InitRun(Run(DefaultMode, TRUE, EmptyStore, OriginOf("ok", "ok"), {}))
  /\ files = [filename \in DiskFilenames |-> 0]
  /\ inodes = <<>>
  /\ dirExists = FALSE
  /\ writer = <<>> /\ old = None /\ crashes = 0
  /\ seed = None /\ creates = 0 /\ ops = 0
  /\ lastSet = [filename \in DiskFilenames |-> None]
  /\ ret = None
  /\ authStr = None /\ authTokens = <<>> /\ authRet = None
  /\ arg = None /\ result = None

NextDisk ==
  \/ \E filename \in DiskFilenames, data \in DiskDatas : DiskSet(filename, data)
  \/ \E filename \in DiskFilenames : DiskGet(filename)

SpecDisk == InitDisk /\ [][NextDisk]_vars

\* C40, as claimed: a get of a filename that has been set returns the bytes of
\* the latest set of that filename, whatever was set before.
C40_GetReturnsLatestSet ==
  (arg # None /\ arg.fn = "get" /\ lastSet[arg.filename] # None) =>
    result = lastSet[arg.filename]

====
